---- MODULE Spec2Model ----
(***************************************************************************)
(* State-machine model of PDFToolkitApp (src/pdftoolkitapp.py): the        *)
(* drag-and-drop intake, compress_pdf and batch_compress (Spec), the       *)
(* page-range operations pdf_to_excel, pdf_to_word and pdf_to_images       *)
(* beside compress_pdf (PageSpec), get_dropped_files (IntakeSpec),         *)
(* batch_compress run twice on one dropped list (RerunSpec), drops with    *)
(* their argument recorded (DropSpec), pdf_to_text and split_pdf on a      *)
(* small document (DocSpec), and the handlers that show the progress bar,  *)
(* with image_to_pdf and decrypt_pdf (ProgressSpec).                       *)
(* Every library call that can raise is a step with a success branch and   *)
(* a failure branch; the handlers run one at a time on the Tk event loop.  *)
(***************************************************************************)
EXTENDS Integers, Sequences, FiniteSets, TLC

\* ------------------------------------------------------------------ bounds
MaxSize == 3
MaxOps == 1
MaxPages == 102

\* ------------------------------------------------------- program constants
MAX_PAGES_FOR_LOSSY == 500
DefaultQuality == 80
DefaultDpi == 150
MinQuality == 1
MaxQuality == 100
MinDpi == 72
MaxDpi == 300

\* ------------------------------------------------------------------- paths
\* A path is a sequence of one-character strings.
NoPath == << >>
PdfExt == <<".", "p", "d", "f">>
CompressedSuffix ==
    <<"_", "c", "o", "m", "p", "r", "e", "s", "s", "e", "d">> \o PdfExt
BatchCompressedSuffix ==
    <<"_", "b", "a", "t", "c", "h">> \o CompressedSuffix

PathX == <<"x">> \o PdfExt
PathYUpper == <<"y", ".", "P", "D", "F">>
PathXBatchOut == <<"x">> \o BatchCompressedSuffix
PathTxt == <<"t", ".", "t", "x", "t">>
PathGone == <<"g">> \o PdfExt

\* str.lower() on the characters that occur in the modelled paths
LowerChar(c) ==
    CASE c = "P" -> "p"
      [] c = "D" -> "d"
      [] c = "F" -> "f"
      [] OTHER -> c

Lower(s) == [i \in 1..Len(s) |-> LowerChar(s[i])]

LastIndexOf(s, c) ==
    LET hits == {i \in 1..Len(s) : s[i] = c}
    IN IF hits = {} THEN 0 ELSE CHOOSE i \in hits : \A j \in hits : j <= i

\* os.path.splitext: the extension starts at the last dot of the last path
\* component, unless that component consists of leading dots only up to it.
SplitExt(p) ==
    LET sepIndex == LastIndexOf(p, "/")
        dotIndex == LastIndexOf(p, ".")
    IN IF /\ dotIndex > sepIndex
          /\ \E k \in (sepIndex + 1)..(dotIndex - 1) : p[k] # "."
       THEN <<SubSeq(p, 1, dotIndex - 1), SubSeq(p, dotIndex, Len(p))>>
       ELSE <<p, << >> >>

Stem(p) == SplitExt(p)[1]
Ext(p) == SplitExt(p)[2]

\* os.path.basename
Basename(p) == SubSeq(p, LastIndexOf(p, "/") + 1, Len(p))

\* Faulty variant of CompressOutputPath: the suffix is forgotten
CompressOutputPathNoSuffix(p) == Stem(p) \o PdfExt

\* Faulty variant of CompressOutputPath: the input's own extension is kept
CompressOutputPathKeepExt(p) ==
    Stem(p) \o <<"_", "c", "o", "m", "p", "r", "e", "s", "s", "e", "d">> \o Ext(p)

CompressOutputPath(p) == Stem(p) \o CompressedSuffix

\* Faulty variant of BatchOutputPath: the stem of the input is left out
BatchOutputPathNoStem(p) == BatchCompressedSuffix

BatchOutputPath(p) == Stem(p) \o BatchCompressedSuffix

\* ------------------------------------------------------------------- state
VARIABLES
    fs,                 \* the file system: path -> file content
    last_dropped_paths, \* self.last_dropped_paths
    status_label,       \* text of self.status_label
    progress,           \* TRUE while self.progress is running
    op,                 \* the handler on the stack: "idle", "compress", "batch"
    pc,                 \* position inside the running handler
    nops,               \* handlers started so far
    log,                \* calls made by the running handler, in order
    pdf_path, quality, dpi, input_size, output_path, out_size, page_count,
    doc, doc_info,      \* locals of compress_pdf / batch_compress
    files, idx,         \* batch_compress: the list iterated and the position in it
    outcomes,           \* batch_compress: how each finished item ended, in order
    total_pages,        \* page-range operations: the probed page count
    first_page_in, last_page_in, \* the answers of the two page prompts
    start_page, end_page,  \* the selected range, as the handler's locals hold it
    pages_found,        \* pages the document has when it is opened for conversion
    processed,          \* source pages (1-based) converted, in order
    dropped_files,      \* result of the last get_dropped_files call
    drop_paths,         \* argument of the last handle_dropped_files call
    first_run,          \* batch_compress: what an earlier run on the same list left
    extracted_text      \* pdf_to_text: the segments collected, one record each

vars ==
    <<fs, last_dropped_paths, status_label, progress, op, pc, nops, log,
      pdf_path, quality, dpi, input_size, output_path, out_size, page_count,
      doc, doc_info, files, idx, outcomes, total_pages, first_page_in,
      last_page_in, start_page, end_page, pages_found, processed, dropped_files,
      drop_paths, first_run, extracted_text>>

\* The variables of the page-range operations, of the intake query and of the
\* observations on drops, repeated batches and text extraction
rangeVars ==
    <<total_pages, first_page_in, last_page_in, start_page, end_page,
      pages_found, processed, dropped_files, drop_paths, first_run, extracted_text>>

Sizes == 1..MaxSize

\* Optional values: None is the empty sequence, a value v is <<v>>.
None == << >>
Some(v) == <<v>>

\* The last get_dropped_files call: its arguments and what it returned
Query(allowed_exts, multiple, result) ==
    [allowed_exts |-> allowed_exts, multiple |-> multiple, result |-> result]
NoQuery == Query({}, FALSE, None)

\* A local holding a fitz.Document: unbound, open or closed.
Unbound == [path |-> NoPath, state |-> "unbound"]
Opened(p) == [path |-> p, state |-> "open"]
Closed(d) == [path |-> d.path, state |-> "closed"]

\* File contents.  kind: "orig" an input document, "lossless" the result of
\* save(garbage=4, deflate=True), "lossy" the rasterized result, "partial"
\* what an interrupted save left behind.  src is the document it was made from.
File(kind, src, size, pages) ==
    [kind |-> kind, src |-> src, size |-> size, pages |-> pages]

\* The documents on disk at start: one with as many pages as the lossy pass
\* accepts, one with a page more.
InitFs ==
    (PathX :> File("orig", PathX, 2, MAX_PAGES_FOR_LOSSY))
    @@ (PathYUpper :> File("orig", PathYUpper, 2, MAX_PAGES_FOR_LOSSY + 1))

\* os.path.isfile
IsFile(p) == p \in DOMAIN fs

\* Writing content c at path p
WriteFile(f, p, c) == [q \in (DOMAIN f) \cup {p} |-> IF q = p THEN c ELSE f[q]]

\* What a save that raised can leave at its target: nothing new, or a
\* truncated file.
AfterFailedSave(f, p, src) ==
    {f, WriteFile(f, p, File("partial", src, 1, 0))}

Ev(e) == [ev |-> e, item |-> idx]

Init ==
    /\ fs = InitFs
    /\ last_dropped_paths = << >>
    /\ status_label = [kind |-> "No file selected", name |-> NoPath]
    /\ progress = FALSE
    /\ op = "idle"
    /\ pc = "idle"
    /\ nops = 0
    /\ log = << >>
    /\ pdf_path = NoPath
    /\ quality = DefaultQuality
    /\ dpi = DefaultDpi
    /\ input_size = 0
    /\ output_path = NoPath
    /\ out_size = 0
    /\ page_count = None
    /\ doc = Unbound
    /\ doc_info = Unbound
    /\ files = << >>
    /\ idx = 0
    /\ outcomes = << >>
    /\ total_pages = None
    /\ first_page_in = None
    /\ last_page_in = None
    /\ start_page = 1
    /\ end_page = None
    /\ pages_found = 0
    /\ processed = << >>
    /\ dropped_files = NoQuery
    /\ drop_paths = << >>
    /\ first_run = None
    /\ extracted_text = << >>

\* ------------------------------------------------------------ drag and drop
\* Paths the shell can hand over in one drop: files, and a name that is no file.
DropUniverse == {PathX, PathYUpper, PathGone}

\* The orderings of the subsets of S: sequences that name no element twice
DistinctSeqs(S) ==
    {l \in UNION {[1..k -> S] : k \in 0..Cardinality(S)} :
        \A i, j \in 1..Len(l) : i # j => l[i] # l[j]}

\* [p for p in s if keep(p)]
RECURSIVE FilterSeq(_, _)
FilterSeq(s, keep) ==
    IF s = << >> THEN << >>
    ELSE (IF Head(s) \in keep THEN <<Head(s)>> ELSE << >>) \o FilterSeq(Tail(s), keep)

\* The elements of a sequence
SeqRange(s) == {s[i] : i \in 1..Len(s)}

\* handle_dropped_files(paths): only the existing files are retained, and
\* nothing changes when there is none
HandleDropped(paths) ==
    /\ LET existing == FilterSeq(paths, {p \in SeqRange(paths) : IsFile(p)})
       IN IF paths = << >> \/ existing = << >>
          THEN UNCHANGED <<last_dropped_paths, status_label>>
          ELSE /\ last_dropped_paths' = existing
               \* a PDF is previewed; preview_pdf_page reports its own failure
               \* in the status label
               /\ \E previewOk \in BOOLEAN :
                     status_label' =
                         IF Lower(Ext(existing[1])) = PdfExt /\ ~previewOk
                         THEN [kind |-> "Preview unavailable", name |-> NoPath]
                         ELSE [kind |-> "Dropped", name |-> Basename(existing[1])]
    /\ UNCHANGED <<fs, progress, op, pc, nops, log, pdf_path, quality, dpi, input_size,
                   output_path, out_size, page_count, doc, doc_info, files, idx, outcomes>>

\* handle_dropped_files(paths), for the drops the shell can make of the paths
\* in universe
HandleDroppedFilesFrom(universe) ==
    /\ op = "idle"
    /\ \E paths \in DistinctSeqs(universe) : HandleDropped(paths)
    /\ UNCHANGED rangeVars

\* handle_dropped_files(paths)
HandleDroppedFiles == HandleDroppedFilesFrom(DropUniverse)

\* Faulty variant of GetDroppedFiles: the extension is compared as written
GetDroppedFilesCaseSensitive(allowed_exts, multiple) ==
    LET filtered ==
            FilterSeq(last_dropped_paths,
                      {p \in SeqRange(last_dropped_paths) :
                          Ext(p) \in allowed_exts /\ IsFile(p)})
    IN IF last_dropped_paths = << >> THEN None
       ELSE IF filtered = << >> THEN None
       ELSE IF multiple THEN Some(filtered) ELSE Some(<<filtered[1]>>)

\* get_dropped_files(allowed_exts, multiple)
GetDroppedFiles(allowed_exts, multiple) ==
    LET filtered ==
            FilterSeq(last_dropped_paths,
                      {p \in SeqRange(last_dropped_paths) :
                          Lower(Ext(p)) \in allowed_exts /\ IsFile(p)})
    IN IF last_dropped_paths = << >> THEN None
       ELSE IF filtered = << >> THEN None
       ELSE IF multiple THEN Some(filtered) ELSE Some(<<filtered[1]>>)

\* The documents the user works on
Documents == {PathX, PathYUpper}

\* Of these, the files the "*.pdf" filter of the file dialogs lists
PdfFiles == {p \in Documents \cap DOMAIN fs : Lower(Ext(p)) = PdfExt}

\* askopenfilename: one listed file, or "" on cancel
DialogChoices == PdfFiles \cup {NoPath}

\* askopenfilenames: listed files, each at most once, or () on cancel
DialogLists == DistinctSeqs(PdfFiles)

\* Answers of simpledialog.askinteger: None on cancel, or a value within the
\* prompt's bounds.
QualityAnswers == {None, Some(MinQuality)}
DpiAnswers == {None, Some(MaxDpi)}

\* ------------------------------------------------------------ compress_pdf
\* Faulty variant of LossyDecision: escalation only when the file grew
LossyDecisionStrict(outSize, inSize, pageCount) ==
    outSize > inSize /\ (pageCount = None \/ pageCount[1] <= MAX_PAGES_FOR_LOSSY)

\* The escalation test of compress_pdf
LossyDecision(outSize, inSize, pageCount) ==
    outSize >= inSize /\ (pageCount = None \/ pageCount[1] <= MAX_PAGES_FOR_LOSSY)

\* Faulty variant of SkipNotice: the notice only when the file grew
SkipNoticeStrict(outSize, inSize) == outSize > inSize

\* The test of the elif branch, reached when LossyDecision is false
SkipNotice(outSize, inSize) == outSize >= inSize

\* Faulty variant of CompressRaise: the error is swallowed without a dialog
CompressRaiseSilent(e) ==
    /\ log' = Append(log, Ev(e))
    /\ progress' = FALSE
    /\ pc' = "done"

\* except Exception: messagebox.showerror; finally: self.progress.stop()
CompressRaise(e) ==
    /\ log' = log \o <<Ev(e), Ev("showerror")>>
    /\ progress' = FALSE
    /\ pc' = "done"

\* Faulty variant of OrDefault: a cancelled prompt leaves no value
OrDefaultMissing(answer, default) == IF answer = None THEN 0 ELSE answer[1]

\* if quality is None: quality = 80, and the same for dpi
OrDefault(answer, default) == IF answer = None THEN default ELSE answer[1]

\* The record of a prompt in log: what was asked and whether it was cancelled
Asked(what, answer) ==
    [ev |-> (IF answer = None THEN what \o "_cancelled" ELSE what \o "_entered"),
     item |-> 0]

\* Lines up to self.root.update(): pick the file, ask quality and dpi.
CompressStart ==
    /\ op = "idle"
    /\ nops < MaxOps
    /\ nops' = nops + 1
    /\ LET dropped == GetDroppedFiles({PdfExt}, FALSE)
       IN \E chosen \in (IF dropped # None THEN {dropped[1][1]} ELSE DialogChoices),
             q \in QualityAnswers, d \in DpiAnswers :
            IF chosen = NoPath
            THEN UNCHANGED <<fs, last_dropped_paths, status_label, progress, op, pc,
                             log, pdf_path, quality, dpi, input_size, output_path,
                             out_size, page_count, doc, doc_info, files, idx, outcomes>>
            ELSE /\ pdf_path' = chosen
                 /\ quality' = OrDefault(q, DefaultQuality)
                 /\ dpi' = OrDefault(d, DefaultDpi)
                 /\ status_label' = [kind |-> "Selected", name |-> Basename(chosen)]
                 /\ progress' = TRUE
                 /\ op' = "compress"
                 /\ pc' = "getsize"
                 /\ log' = (IF dropped # None THEN << >>
                            ELSE <<[ev |-> "askopenfilename", item |-> 0]>>)
                           \o <<Asked("quality", q), Asked("dpi", d)>>
                 /\ input_size' = 0
                 /\ output_path' = NoPath
                 /\ out_size' = 0
                 /\ page_count' = None
                 /\ doc' = Unbound
                 /\ doc_info' = Unbound
                 /\ idx' = 0
                 /\ UNCHANGED <<fs, last_dropped_paths, files, outcomes>>
    /\ UNCHANGED rangeVars

\* input_size = os.path.getsize(pdf_path); output_path = ...
CompressGetInputSize ==
    /\ op = "compress" /\ pc = "getsize"
    /\ \/ /\ pdf_path \in DOMAIN fs
          /\ input_size' = fs[pdf_path].size
          /\ output_path' = CompressOutputPath(pdf_path)
          /\ log' = Append(log, Ev("input_size"))
          /\ pc' = "open"
          /\ UNCHANGED progress
       \/ /\ CompressRaise("input_size_failed")
          /\ UNCHANGED <<input_size, output_path>>
    /\ UNCHANGED <<fs, last_dropped_paths, status_label, op, nops, pdf_path, quality,
                   dpi, out_size, page_count, doc, doc_info, files, idx, outcomes>>
    /\ UNCHANGED rangeVars

\* Faulty variant of CompressMeasure: goes on without measuring the lossless output
CompressMeasureSkipped ==
    /\ op = "compress" /\ pc = "measure"
    /\ log' = Append(log, Ev("probe"))
    /\ page_count' = Some(fs[pdf_path].pages)
    /\ doc_info' = Closed(Opened(pdf_path))
    /\ pc' = "decide"
    /\ UNCHANGED <<fs, last_dropped_paths, status_label, progress, op, nops, pdf_path,
                   quality, dpi, input_size, output_path, out_size, doc, files, idx,
                   outcomes>>
    /\ UNCHANGED rangeVars

\* doc = fitz.open(pdf_path)
CompressOpenLossless ==
    /\ op = "compress" /\ pc = "open"
    /\ \/ /\ doc' = Opened(pdf_path)
          /\ log' = Append(log, Ev("open"))
          /\ pc' = "save"
          /\ UNCHANGED progress
       \/ /\ CompressRaise("open_failed")
          /\ UNCHANGED doc
    /\ UNCHANGED <<fs, last_dropped_paths, status_label, op, nops, pdf_path, quality,
                   dpi, input_size, output_path, out_size, page_count, doc_info,
                   files, idx, outcomes>>
    /\ UNCHANGED rangeVars

\* try: doc.save(output_path, garbage=4, deflate=True) finally: doc.close()
CompressSaveLossless ==
    /\ op = "compress" /\ pc = "save"
    /\ doc' = Closed(doc)
    /\ \/ /\ \E n \in Sizes :
               fs' = WriteFile(fs, output_path,
                               File("lossless", pdf_path, n, fs[pdf_path].pages))
          /\ log' = Append(log, Ev("lossless_save"))
          /\ pc' = "measure"
          /\ UNCHANGED progress
       \/ /\ fs' \in AfterFailedSave(fs, output_path, pdf_path)
          /\ CompressRaise("lossless_save_failed")
    /\ UNCHANGED <<last_dropped_paths, status_label, op, nops, pdf_path, quality, dpi,
                   input_size, output_path, out_size, page_count, doc_info, files, idx, outcomes>>
    /\ UNCHANGED rangeVars

\* out_size = os.path.getsize(output_path)
CompressMeasure ==
    /\ op = "compress" /\ pc = "measure"
    /\ \/ /\ out_size' = fs[output_path].size
          /\ log' = Append(log, Ev("measure"))
          /\ pc' = "probe"
          /\ UNCHANGED progress
       \/ /\ CompressRaise("measure_failed")
          /\ UNCHANGED out_size
    /\ UNCHANGED <<fs, last_dropped_paths, status_label, op, nops, pdf_path, quality,
                   dpi, input_size, output_path, page_count, doc, doc_info, files, idx, outcomes>>
    /\ UNCHANGED rangeVars

\* The page-count probe: try open/page_count, except -> None, finally close.
CompressProbe ==
    /\ op = "compress" /\ pc = "probe"
    /\ \/ /\ page_count' = Some(fs[pdf_path].pages)
          /\ doc_info' = Closed(Opened(pdf_path))
       \/ \* fitz.open raised: doc_info stays unbound, close() raises and is swallowed
          /\ page_count' = None
          /\ doc_info' = Unbound
       \/ \* reading page_count raised after a successful open
          /\ page_count' = None
          /\ doc_info' = Closed(Opened(pdf_path))
    /\ log' = Append(log, Ev("probe"))
    /\ pc' = "decide"
    /\ UNCHANGED <<fs, last_dropped_paths, status_label, progress, op, nops, pdf_path,
                   quality, dpi, input_size, output_path, out_size, doc, files, idx, outcomes>>
    /\ UNCHANGED rangeVars

\* if out_size >= input_size and (...): lossy pass; elif out_size >= input_size:
\* the "Skipped Fallback" notice
CompressDecide ==
    /\ op = "compress" /\ pc = "decide"
    /\ IF LossyDecision(out_size, input_size, page_count)
       THEN /\ log' = Append(log, Ev("decide_lossy"))
            /\ pc' = "lossy_open"
       ELSE IF SkipNotice(out_size, input_size)
       THEN /\ log' = log \o <<Ev("decide_keep"), Ev("showinfo_skipped")>>
            /\ pc' = "finish"
       ELSE /\ log' = Append(log, Ev("decide_keep"))
            /\ pc' = "finish"
    /\ UNCHANGED <<fs, last_dropped_paths, status_label, progress, op, nops, pdf_path,
                   quality, dpi, input_size, output_path, out_size, page_count, doc,
                   doc_info, files, idx, outcomes>>
    /\ UNCHANGED rangeVars

\* Faulty variant of CompressLossyOpen: the lossy pass opens the lossless result
CompressLossyOpenResult ==
    /\ op = "compress" /\ pc = "lossy_open"
    /\ \/ /\ doc' = Opened(output_path)
          /\ log' = Append(log, Ev("lossy_open"))
          /\ pc' = "rasterize"
          /\ UNCHANGED progress
       \/ /\ CompressRaise("lossy_open_failed")
          /\ UNCHANGED doc
    /\ UNCHANGED <<fs, last_dropped_paths, status_label, op, nops, pdf_path, quality,
                   dpi, input_size, output_path, out_size, page_count, doc_info,
                   files, idx, outcomes>>
    /\ UNCHANGED rangeVars

\* doc = fitz.open(pdf_path) of the lossy pass
CompressLossyOpen ==
    /\ op = "compress" /\ pc = "lossy_open"
    /\ \/ /\ doc' = Opened(pdf_path)
          /\ log' = Append(log, Ev("lossy_open"))
          /\ pc' = "rasterize"
          /\ UNCHANGED progress
       \/ /\ CompressRaise("lossy_open_failed")
          /\ UNCHANGED doc
    /\ UNCHANGED <<fs, last_dropped_paths, status_label, op, nops, pdf_path, quality,
                   dpi, input_size, output_path, out_size, page_count, doc_info,
                   files, idx, outcomes>>
    /\ UNCHANGED rangeVars

\* for page in doc: rasterize, re-encode as JPEG, replace the page content
CompressRasterize ==
    /\ op = "compress" /\ pc = "rasterize"
    /\ \/ /\ log' = Append(log, Ev("rasterize"))
          /\ pc' = "lossy_save"
          /\ UNCHANGED progress
       \/ /\ fs[pdf_path].pages > 0
          /\ CompressRaise("rasterize_failed")
    /\ UNCHANGED <<fs, last_dropped_paths, status_label, op, nops, pdf_path, quality,
                   dpi, input_size, output_path, out_size, page_count, doc, doc_info,
                   files, idx, outcomes>>
    /\ UNCHANGED rangeVars

\* Faulty variant of CompressLossySave: the lossy result is kept only when it is
\* smaller than the lossless one
CompressLossySaveIfSmaller ==
    /\ op = "compress" /\ pc = "lossy_save"
    /\ \E n \in Sizes :
          fs' = IF n < out_size
                THEN WriteFile(fs, output_path,
                               File("lossy", pdf_path, n, fs[pdf_path].pages))
                ELSE fs
    /\ doc' = Closed(doc)
    /\ log' = Append(log, Ev("lossy_save"))
    /\ pc' = "finish"
    /\ UNCHANGED <<progress, last_dropped_paths, status_label, op, nops, pdf_path,
                   quality, dpi, input_size, output_path, out_size, page_count,
                   doc_info, files, idx, outcomes>>
    /\ UNCHANGED rangeVars

\* doc.save(output_path); doc.close()
CompressLossySave ==
    /\ op = "compress" /\ pc = "lossy_save"
    /\ \/ /\ \E n \in Sizes :
               fs' = WriteFile(fs, output_path,
                               File("lossy", pdf_path, n, fs[pdf_path].pages))
          /\ doc' = Closed(doc)
          /\ log' = Append(log, Ev("lossy_save"))
          /\ pc' = "finish"
          /\ UNCHANGED progress
       \/ /\ fs' \in AfterFailedSave(fs, output_path, pdf_path)
          /\ CompressRaise("lossy_save_failed")
          /\ UNCHANGED doc
    /\ UNCHANGED <<last_dropped_paths, status_label, op, nops, pdf_path, quality, dpi,
                   input_size, output_path, out_size, page_count, doc_info, files, idx, outcomes>>
    /\ UNCHANGED rangeVars

\* status "Saved as", preview_pdf_page(output_path), finally progress.stop()
CompressFinish ==
    /\ op = "compress" /\ pc = "finish"
    /\ \E previewOk \in BOOLEAN :
          status_label' =
              IF previewOk THEN [kind |-> "Saved as", name |-> Basename(output_path)]
              ELSE [kind |-> "Preview unavailable", name |-> NoPath]
    /\ log' = log \o <<Ev("status_saved"), Ev("preview")>>
    /\ progress' = FALSE
    /\ pc' = "done"
    /\ UNCHANGED <<fs, last_dropped_paths, op, nops, pdf_path, quality, dpi,
                   input_size, output_path, out_size, page_count, doc, doc_info,
                   files, idx, outcomes>>
    /\ UNCHANGED rangeVars

\* ----------------------------------------------------------- batch_compress
\* The escalation test of batch_compress
BatchLossyDecision(outSize, inSize) == outSize >= inSize

\* Faulty variant of BatchAdvance: an error ends the loop instead of skipping the item
BatchAdvanceAbortOnError(result) ==
    /\ outcomes' = Append(outcomes, [path |-> pdf_path, result |-> result])
    /\ log' = << >>
    /\ IF idx < Len(files) /\ result # "error"
       THEN /\ idx' = idx + 1
            /\ pdf_path' = files[idx + 1]
            /\ pc' = "b_getsize"
       ELSE /\ pc' = "b_finish"
            /\ UNCHANGED <<idx, pdf_path>>

\* The item ends (result "kept" or "lossy" at the end of the loop body, "error"
\* through except Exception: continue) and the for statement takes the next
\* path of files, or the loop ends.
\* log holds the calls made for the current item only.
BatchAdvance(result) ==
    /\ outcomes' = Append(outcomes, [path |-> pdf_path, result |-> result])
    /\ log' = << >>
    /\ IF idx < Len(files)
       THEN /\ idx' = idx + 1
            /\ pdf_path' = files[idx + 1]
            /\ pc' = "b_getsize"
       ELSE /\ pc' = "b_finish"
            /\ UNCHANGED <<idx, pdf_path>>

\* A step of the item succeeded and the item goes on.
BatchStep(e, next) ==
    /\ log' = Append(log, Ev(e))
    /\ pc' = next
    /\ UNCHANGED <<idx, pdf_path, outcomes>>

\* Lines up to self.root.update(): the dropped PDFs, else the dialog's selection.
BatchStart ==
    /\ op = "idle"
    /\ nops < MaxOps
    /\ nops' = nops + 1
    /\ LET dropped == GetDroppedFiles({PdfExt}, TRUE)
       IN \E chosen \in (IF dropped # None THEN {dropped[1]} ELSE DialogLists) :
            IF chosen = << >>
            THEN UNCHANGED <<fs, last_dropped_paths, status_label, progress, op, pc,
                             log, pdf_path, quality, dpi, input_size, output_path,
                             out_size, page_count, doc, doc_info, files, idx, outcomes>>
            ELSE /\ files' = chosen
                 /\ idx' = 1
                 /\ pdf_path' = chosen[1]
                 /\ progress' = TRUE
                 /\ op' = "batch"
                 /\ pc' = "b_getsize"
                 /\ log' = << >>
                 /\ outcomes' = << >>
                 /\ input_size' = 0
                 /\ output_path' = NoPath
                 /\ out_size' = 0
                 /\ doc' = Unbound
                 /\ UNCHANGED <<fs, last_dropped_paths, status_label, quality, dpi,
                                page_count, doc_info>>
    /\ UNCHANGED rangeVars

\* input_size = os.path.getsize(pdf_path); output = ...
BatchGetInputSize ==
    /\ op = "batch" /\ pc = "b_getsize"
    /\ \/ /\ pdf_path \in DOMAIN fs
          /\ input_size' = fs[pdf_path].size
          /\ output_path' = BatchOutputPath(pdf_path)
          /\ BatchStep("input_size", "b_open")
       \/ /\ BatchAdvance("error")
          /\ UNCHANGED <<input_size, output_path>>
    /\ UNCHANGED <<fs, last_dropped_paths, status_label, progress, op, nops, quality,
                   dpi, out_size, page_count, doc, doc_info, files>>
    /\ UNCHANGED rangeVars

\* doc = fitz.open(pdf_path)
BatchOpenLossless ==
    /\ op = "batch" /\ pc = "b_open"
    /\ \/ /\ doc' = Opened(pdf_path)
          /\ BatchStep("open", "b_save")
       \/ /\ BatchAdvance("error")
          /\ UNCHANGED doc
    /\ UNCHANGED <<fs, last_dropped_paths, status_label, progress, op, nops, quality,
                   dpi, input_size, output_path, out_size, page_count, doc_info, files>>
    /\ UNCHANGED rangeVars

\* doc.save(output, garbage=4, deflate=True); doc.close()
BatchSaveLossless ==
    /\ op = "batch" /\ pc = "b_save"
    /\ \/ /\ \E n \in Sizes :
               fs' = WriteFile(fs, output_path,
                               File("lossless", pdf_path, n, fs[pdf_path].pages))
          /\ doc' = Closed(doc)
          /\ BatchStep("lossless_save", "b_measure")
       \/ /\ fs' \in AfterFailedSave(fs, output_path, pdf_path)
          /\ BatchAdvance("error")
          /\ UNCHANGED doc
    /\ UNCHANGED <<last_dropped_paths, status_label, progress, op, nops, quality, dpi,
                   input_size, output_path, out_size, page_count, doc_info, files>>
    /\ UNCHANGED rangeVars

\* out_size = os.path.getsize(output)
BatchMeasure ==
    /\ op = "batch" /\ pc = "b_measure"
    /\ \/ /\ out_size' = fs[output_path].size
          /\ BatchStep("measure", "b_decide")
       \/ /\ BatchAdvance("error")
          /\ UNCHANGED out_size
    /\ UNCHANGED <<fs, last_dropped_paths, status_label, progress, op, nops, quality,
                   dpi, input_size, output_path, page_count, doc, doc_info, files>>
    /\ UNCHANGED rangeVars

\* if out_size >= input_size: lossy pass; else the item is finished
BatchDecide ==
    /\ op = "batch" /\ pc = "b_decide"
    /\ IF BatchLossyDecision(out_size, input_size)
       THEN BatchStep("decide_lossy", "b_lossy_open")
       ELSE BatchAdvance("kept")
    /\ UNCHANGED <<fs, last_dropped_paths, status_label, progress, op, nops, quality,
                   dpi, input_size, output_path, out_size, page_count, doc, doc_info,
                   files>>
    /\ UNCHANGED rangeVars

\* doc = fitz.open(pdf_path) of the lossy pass
BatchLossyOpen ==
    /\ op = "batch" /\ pc = "b_lossy_open"
    /\ \/ /\ doc' = Opened(pdf_path)
          /\ BatchStep("lossy_open", "b_rasterize")
       \/ /\ BatchAdvance("error")
          /\ UNCHANGED doc
    /\ UNCHANGED <<fs, last_dropped_paths, status_label, progress, op, nops, quality,
                   dpi, input_size, output_path, out_size, page_count, doc_info, files>>
    /\ UNCHANGED rangeVars

\* for page in doc: rasterize at 150 dpi, JPEG quality 80
BatchRasterize ==
    /\ op = "batch" /\ pc = "b_rasterize"
    /\ \/ BatchStep("rasterize", "b_lossy_save")
       \/ /\ fs[pdf_path].pages > 0
          /\ BatchAdvance("error")
    /\ UNCHANGED <<fs, last_dropped_paths, status_label, progress, op, nops, quality,
                   dpi, input_size, output_path, out_size, page_count, doc, doc_info,
                   files>>
    /\ UNCHANGED rangeVars

\* doc.save(output); doc.close()
BatchLossySave ==
    /\ op = "batch" /\ pc = "b_lossy_save"
    /\ \/ /\ \E n \in Sizes :
               fs' = WriteFile(fs, output_path,
                               File("lossy", pdf_path, n, fs[pdf_path].pages))
          /\ doc' = Closed(doc)
          /\ BatchAdvance("lossy")
       \/ /\ fs' \in AfterFailedSave(fs, output_path, pdf_path)
          /\ BatchAdvance("error")
          /\ UNCHANGED doc
    /\ UNCHANGED <<last_dropped_paths, status_label, progress, op, nops, quality, dpi,
                   input_size, output_path, out_size, page_count, doc_info, files>>
    /\ UNCHANGED rangeVars

\* Faulty variant of BatchFinish: the failures of the items are reported at the end
BatchFinishReporting ==
    /\ op = "batch" /\ pc = "b_finish"
    /\ log' = Append(log, [ev |-> (IF \E i \in 1..Len(outcomes) :
                                         outcomes[i].result = "error"
                                  THEN "showerror" ELSE "showinfo_done"),
                           item |-> 0])
    /\ progress' = FALSE
    /\ pc' = "done"
    /\ UNCHANGED <<fs, last_dropped_paths, status_label, op, nops, pdf_path, quality,
                   dpi, input_size, output_path, out_size, page_count, doc, doc_info,
                   files, idx, outcomes>>
    /\ UNCHANGED rangeVars

\* messagebox.showinfo("Done", ...); finally: self.progress.stop()
BatchFinish ==
    /\ op = "batch" /\ pc = "b_finish"
    /\ log' = Append(log, [ev |-> "showinfo_done", item |-> 0])
    /\ progress' = FALSE
    /\ pc' = "done"
    /\ UNCHANGED <<fs, last_dropped_paths, status_label, op, nops, pdf_path, quality,
                   dpi, input_size, output_path, out_size, page_count, doc, doc_info,
                   files, idx, outcomes>>
    /\ UNCHANGED rangeVars

\* Faulty variant of Return: the retained drop is used up by the handler
ReturnForgetsDrop ==
    /\ op \in {"compress", "batch"} /\ pc = "done"
    /\ op' = "idle"
    /\ pc' = "idle"
    /\ log' = << >>
    /\ pdf_path' = NoPath
    /\ quality' = DefaultQuality
    /\ dpi' = DefaultDpi
    /\ input_size' = 0
    /\ output_path' = NoPath
    /\ out_size' = 0
    /\ page_count' = None
    /\ doc' = Unbound
    /\ doc_info' = Unbound
    /\ files' = << >>
    /\ idx' = 0
    /\ outcomes' = << >>
    /\ last_dropped_paths' = << >>
    /\ UNCHANGED <<fs, status_label, progress, nops>>
    /\ UNCHANGED rangeVars

\* The handler returns to the event loop: its frame and locals are dropped.
Return ==
    /\ op \in {"compress", "batch"} /\ pc = "done"
    /\ op' = "idle"
    /\ pc' = "idle"
    /\ log' = << >>
    /\ pdf_path' = NoPath
    /\ quality' = DefaultQuality
    /\ dpi' = DefaultDpi
    /\ input_size' = 0
    /\ output_path' = NoPath
    /\ out_size' = 0
    /\ page_count' = None
    /\ doc' = Unbound
    /\ doc_info' = Unbound
    /\ files' = << >>
    /\ idx' = 0
    /\ outcomes' = << >>
    /\ UNCHANGED <<fs, last_dropped_paths, status_label, progress, nops>>
    /\ UNCHANGED rangeVars

Next ==
    \/ HandleDroppedFiles
    \/ CompressStart
    \/ CompressGetInputSize
    \/ CompressOpenLossless
    \/ CompressSaveLossless
    \/ CompressMeasure
    \/ CompressProbe
    \/ CompressDecide
    \/ CompressLossyOpen
    \/ CompressRasterize
    \/ CompressLossySave
    \/ CompressFinish
    \/ BatchStart
    \/ BatchGetInputSize
    \/ BatchOpenLossless
    \/ BatchSaveLossless
    \/ BatchMeasure
    \/ BatchDecide
    \/ BatchLossyOpen
    \/ BatchRasterize
    \/ BatchLossySave
    \/ BatchFinish
    \/ Return

Spec == Init /\ [][Next]_vars

\* ----------------------------------------------------- page-range operations
\* pdf_to_excel, pdf_to_word and pdf_to_images: each probes the page count,
\* asks for a page range when the document is large, and converts.
MAX_PAGES_FOR_FULL_EXTRACTION == 100
MAX_PAGES_FOR_FULL_CONVERT == 100
MAX_PAGES_FOR_FULL_CONVERSION == 100

TablesSuffix == <<"_", "t", "a", "b", "l", "e", "s", ".", "x", "l", "s", "x">>
DocxExt == <<".", "d", "o", "c", "x">>
OutFolder == <<"o", "u", "t">>

ExcelOutputPath(p) == Stem(p) \o TablesSuffix
WordOutputPath(p) == Stem(p) \o DocxExt

PageOps == {"excel", "word", "images"}

\* Page counts of the document on disk: a single page, the largest count that
\* is processed in full, the smallest that prompts, and a larger one.
PageSamples == {1, MAX_PAGES_FOR_FULL_EXTRACTION, MAX_PAGES_FOR_FULL_EXTRACTION + 1, MaxPages}

PageFs(p) == PathX :> File("orig", PathX, 2, p)

\* The pages a..b in order (empty when b < a)
PageSeq(a, b) == IF b < a THEN << >> ELSE [i \in 1..(b - a + 1) |-> a + i - 1]

\* range(a, b)
PyRange(a, b) == PageSeq(a, b - 1)

Min(a, b) == IF a <= b THEN a ELSE b

\* simpledialog.askinteger(minvalue=lo, maxvalue=hi): None on cancel, else an
\* integer the dialog has validated against both bounds.  The answers tried
\* are the ends of the interval and their neighbours.
AskInteger(lo, hi) ==
    {None} \cup {Some(v) : v \in {lo, lo + 1, hi - 1, hi} \cap (lo..hi)}

\* Variables no page-range handler assigns
pageFrame ==
    <<last_dropped_paths, quality, dpi, input_size, out_size, page_count, doc_info,
      files, idx, outcomes, dropped_files, drop_paths, first_run, extracted_text>>

\* The file picked by the handler: the first dropped PDF, else the dialog's answer
ChosenPdf ==
    LET d == GetDroppedFiles({PdfExt}, FALSE)
    IN IF d # None THEN {d[1][1]} ELSE DialogChoices

\* Faulty variant of ProbeOutcomes: a failed probe counts as an empty document
ProbeOutcomesZero(p) ==
    {[total |-> Some(fs[p].pages), doc |-> Closed(Opened(p))],
     [total |-> Some(0), doc |-> Unbound],
     [total |-> Some(0), doc |-> Closed(Opened(p))]}

\* try: doc = fitz.open(pdf_path); total_pages = doc.page_count
\* except Exception: total_pages = None
\* finally: try: doc.close() except Exception: pass
\* The outcomes: the count is read; open raised (doc stays unbound, close()
\* raises and is swallowed); page_count raised after a successful open.
ProbeOutcomes(p) ==
    {[total |-> Some(fs[p].pages), doc |-> Closed(Opened(p))],
     [total |-> None, doc |-> Unbound],
     [total |-> None, doc |-> Closed(Opened(p))]}

\* Faulty variant of NeedsRange: a document of exactly ceiling pages prompts too
NeedsRangeAtCeiling(total, ceiling) == total # None /\ total[1] >= ceiling

\* if total_pages is not None and total_pages > MAX_PAGES_...: ask for a range
NeedsRange(total, ceiling) == total # None /\ total[1] > ceiling

\* except Exception as e: messagebox.showerror("Error", str(e))
PageRaise(e) ==
    /\ log' = log \o <<Ev(e), Ev("showerror")>>
    /\ pc' = "done"

\* Between the probe and the conversion another program rewrites the document
\* with a different number of pages.
DocumentReplaced ==
    /\ op \in PageOps
    /\ pc = "r_convert"
    /\ total_pages # None
    /\ fs[pdf_path].pages = total_pages[1]
    /\ \E n \in {1, total_pages[1] - 1, total_pages[1] + 1} \ {0} :
          fs' = [fs EXCEPT ![pdf_path].pages = n]
    /\ UNCHANGED <<status_label, progress, op, pc, nops, log, pdf_path, output_path,
                   doc, total_pages, first_page_in, last_page_in, start_page,
                   end_page, pages_found, processed>>
    /\ UNCHANGED pageFrame

\* --------------------------------------------------------------- pdf_to_excel
ExcelStart ==
    /\ op = "idle"
    /\ nops < MaxOps
    /\ nops' = nops + 1
    /\ \E chosen \in ChosenPdf :
          IF chosen = NoPath
          THEN UNCHANGED <<fs, status_label, progress, op, pc, log, pdf_path,
                           output_path, doc, total_pages, first_page_in, last_page_in,
                           start_page, end_page, pages_found, processed>>
          ELSE /\ pdf_path' = chosen
               /\ status_label' = [kind |-> "Selected", name |-> Basename(chosen)]
               /\ progress' = TRUE
               /\ op' = "excel"
               /\ pc' = "r_probe"
               /\ log' = << >>
               /\ output_path' = ExcelOutputPath(chosen)
               /\ doc' = Unbound
               /\ total_pages' = None
               /\ first_page_in' = None
               /\ last_page_in' = None
               /\ start_page' = 1
               /\ end_page' = None
               /\ pages_found' = 0
               /\ processed' = << >>
               /\ UNCHANGED fs
    /\ UNCHANGED pageFrame

\* The probe, then start_page = 1, end_page = None and the test of the ceiling
ExcelProbe ==
    /\ op = "excel" /\ pc = "r_probe"
    /\ \E r \in ProbeOutcomes(pdf_path) :
          /\ total_pages' = r.total
          /\ doc' = r.doc
          /\ start_page' = 1
          /\ IF NeedsRange(r.total, MAX_PAGES_FOR_FULL_EXTRACTION)
             THEN /\ end_page' = None
                  /\ pc' = "r_ask_start"
             ELSE IF r.total # None
             THEN /\ end_page' = r.total
                  /\ pc' = "r_convert"
             ELSE /\ end_page' = None
                  /\ pc' = "r_convert"
    /\ log' = Append(log, Ev("probe"))
    /\ UNCHANGED <<fs, status_label, progress, op, nops, pdf_path, output_path,
                   first_page_in, last_page_in, pages_found, processed>>
    /\ UNCHANGED pageFrame

\* Faulty variant of ExcelAskStart: a cancelled prompt does not return, the
\* extraction goes on with the default range
ExcelAskStartNoReturn ==
    /\ op = "excel" /\ pc = "r_ask_start"
    /\ \E a \in AskInteger(1, total_pages[1]) :
          /\ first_page_in' = a
          /\ log' = Append(log, Ev("ask_start"))
          /\ pc' = IF a = None THEN "r_convert" ELSE "r_ask_end"
    /\ UNCHANGED <<fs, status_label, progress, op, nops, pdf_path, output_path, doc,
                   total_pages, last_page_in, start_page, end_page, pages_found,
                   processed>>
    /\ UNCHANGED pageFrame

\* first_page_in = askinteger(minvalue=1, maxvalue=total_pages); None: return
ExcelAskStart ==
    /\ op = "excel" /\ pc = "r_ask_start"
    /\ \E a \in AskInteger(1, total_pages[1]) :
          /\ first_page_in' = a
          /\ log' = Append(log, Ev("ask_start"))
          /\ IF a = None
             THEN /\ pc' = "done"
                  /\ progress' = FALSE
             ELSE /\ pc' = "r_ask_end"
                  /\ UNCHANGED progress
    /\ UNCHANGED <<fs, status_label, op, nops, pdf_path, output_path, doc, total_pages,
                   last_page_in, start_page, end_page, pages_found, processed>>
    /\ UNCHANGED pageFrame

\* Faulty variant of ExcelEndBounds: the end prompt starts at page 1 again
ExcelEndBoundsFromOne(first, total) == <<1, total>>

\* minvalue and maxvalue of the end-page prompt
ExcelEndBounds(first, total) == <<first, total>>

\* last_page_in = askinteger(minvalue=first_page_in, maxvalue=total_pages);
\* None: return; else start_page, end_page = first_page_in, last_page_in
ExcelAskEnd ==
    /\ op = "excel" /\ pc = "r_ask_end"
    /\ LET b == ExcelEndBounds(first_page_in[1], total_pages[1])
       IN \E a \in AskInteger(b[1], b[2]) :
          /\ last_page_in' = a
          /\ log' = Append(log, Ev("ask_end"))
          /\ IF a = None
             THEN /\ pc' = "done"
                  /\ progress' = FALSE
                  /\ UNCHANGED <<start_page, end_page>>
             ELSE /\ start_page' = first_page_in[1]
                  /\ end_page' = a
                  /\ pc' = "r_convert"
                  /\ UNCHANGED progress
    /\ UNCHANGED <<fs, status_label, op, nops, pdf_path, output_path, doc, total_pages,
                   first_page_in, pages_found, processed>>
    /\ UNCHANGED pageFrame

\* page_indices: range(len(pdf.pages)) or range(start_page - 1, end_page)
ExcelPageIndices(start, end, n) ==
    IF end = None THEN PyRange(0, n) ELSE PyRange(start - 1, end[1])

\* Faulty variant of ExcelIterate: the loop stops one page early
ExcelIterateShort(indices, n) ==
    LET missing == {i \in 1..Len(indices) : indices[i] >= n - 1}
        stop == IF missing = {} THEN Len(indices)
                ELSE (CHOOSE i \in missing : \A j \in missing : i <= j) - 1
    IN [i \in 1..stop |-> indices[i] + 1]

\* for idx in page_indices: try: page = pdf.pages[idx] except IndexError: break
\* The loop runs up to the first index pdf.pages does not have; the result
\* lists the 1-based pages whose tables were extracted.
ExcelIterate(indices, n) ==
    LET missing == {i \in 1..Len(indices) : indices[i] >= n}
        stop == IF missing = {} THEN Len(indices)
                ELSE (CHOOSE i \in missing : \A j \in missing : i <= j) - 1
    IN [i \in 1..stop |-> indices[i] + 1]

\* with pdfplumber.open(pdf_path) as pdf: the loop over page_indices; then
\* "No Data" when no table was found
ExcelExtract ==
    /\ op = "excel" /\ pc = "r_convert"
    /\ \/ \* pdfplumber.open raised
          /\ PageRaise("open_failed")
          /\ progress' = FALSE
          /\ UNCHANGED <<pages_found, processed>>
       \/ LET n == fs[pdf_path].pages
              got == ExcelIterate(ExcelPageIndices(start_page, end_page, n), n)
          IN /\ pages_found' = n
             /\ processed' = got
             /\ \/ \* extract_tables raised on a page
                   /\ got # << >>
                   /\ PageRaise("extract_failed")
                   /\ progress' = FALSE
                \/ \* some page had a table
                   /\ got # << >>
                   /\ log' = Append(log, Ev("extract"))
                   /\ pc' = "r_write"
                   /\ UNCHANGED progress
                \/ \* all_tables is empty
                   /\ log' = log \o <<Ev("extract"), Ev("showinfo_nodata")>>
                   /\ pc' = "done"
                   /\ progress' = FALSE
    /\ UNCHANGED <<fs, status_label, op, nops, pdf_path, output_path, doc, total_pages,
                   first_page_in, last_page_in, start_page, end_page>>
    /\ UNCHANGED pageFrame

\* with pd.ExcelWriter(output_path) as writer: one sheet per table
ExcelWrite ==
    /\ op = "excel" /\ pc = "r_write"
    /\ \/ /\ fs' = WriteFile(fs, output_path,
                             File("xlsx", pdf_path, 1, Len(processed)))
          /\ status_label' = [kind |-> "Saved as", name |-> Basename(output_path)]
          /\ log' = log \o <<Ev("write"), Ev("showinfo_success")>>
          /\ pc' = "done"
       \/ /\ fs' \in AfterFailedSave(fs, output_path, pdf_path)
          /\ PageRaise("write_failed")
          /\ UNCHANGED status_label
    /\ progress' = FALSE
    /\ UNCHANGED <<op, nops, pdf_path, output_path, doc, total_pages, first_page_in,
                   last_page_in, start_page, end_page, pages_found, processed>>
    /\ UNCHANGED pageFrame

\* ---------------------------------------------------------------- pdf_to_word
\* start_page and end_page hold start_idx and end_idx here: zero-based.
WordStart ==
    /\ op = "idle"
    /\ nops < MaxOps
    /\ nops' = nops + 1
    /\ \E chosen \in ChosenPdf :
          IF chosen = NoPath
          THEN UNCHANGED <<fs, status_label, progress, op, pc, log, pdf_path,
                           output_path, doc, total_pages, first_page_in, last_page_in,
                           start_page, end_page, pages_found, processed>>
          ELSE /\ pdf_path' = chosen
               /\ status_label' = [kind |-> "Selected", name |-> Basename(chosen)]
               /\ progress' = TRUE
               /\ op' = "word"
               /\ pc' = "r_probe"
               /\ log' = << >>
               /\ output_path' = WordOutputPath(chosen)
               /\ doc' = Unbound
               /\ total_pages' = None
               /\ first_page_in' = None
               /\ last_page_in' = None
               /\ start_page' = 0
               /\ end_page' = None
               /\ pages_found' = 0
               /\ processed' = << >>
               /\ UNCHANGED fs
    /\ UNCHANGED pageFrame

\* The probe, then start_idx = 0, end_idx = None and the test of the ceiling;
\* there is no branch for a known count below the ceiling.
WordProbe ==
    /\ op = "word" /\ pc = "r_probe"
    /\ \E r \in ProbeOutcomes(pdf_path) :
          /\ total_pages' = r.total
          /\ doc' = r.doc
          /\ start_page' = 0
          /\ end_page' = None
          /\ pc' = IF NeedsRange(r.total, MAX_PAGES_FOR_FULL_CONVERT)
                   THEN "r_ask_start" ELSE "r_convert"
    /\ log' = Append(log, Ev("probe"))
    /\ UNCHANGED <<fs, status_label, progress, op, nops, pdf_path, output_path,
                   first_page_in, last_page_in, pages_found, processed>>
    /\ UNCHANGED pageFrame

WordAskStart ==
    /\ op = "word" /\ pc = "r_ask_start"
    /\ \E a \in AskInteger(1, total_pages[1]) :
          /\ first_page_in' = a
          /\ log' = Append(log, Ev("ask_start"))
          /\ IF a = None
             THEN /\ pc' = "done"
                  /\ progress' = FALSE
             ELSE /\ pc' = "r_ask_end"
                  /\ UNCHANGED progress
    /\ UNCHANGED <<fs, status_label, op, nops, pdf_path, output_path, doc, total_pages,
                   last_page_in, start_page, end_page, pages_found, processed>>
    /\ UNCHANGED pageFrame

\* Faulty variant of WordEndIdx: the 1-based answer is kept as the index
WordEndIdxOneBased(last) == last

\* end_idx = last_page_in - 1
WordEndIdx(last) == last - 1

\* None: return; else start_idx = first_page_in - 1, end_idx = last_page_in - 1
WordAskEnd ==
    /\ op = "word" /\ pc = "r_ask_end"
    /\ \E a \in AskInteger(first_page_in[1], total_pages[1]) :
          /\ last_page_in' = a
          /\ log' = Append(log, Ev("ask_end"))
          /\ IF a = None
             THEN /\ pc' = "done"
                  /\ progress' = FALSE
                  /\ UNCHANGED <<start_page, end_page>>
             ELSE /\ start_page' = first_page_in[1] - 1
                  /\ end_page' = Some(WordEndIdx(a[1]))
                  /\ pc' = "r_convert"
                  /\ UNCHANGED progress
    /\ UNCHANGED <<fs, status_label, op, nops, pdf_path, output_path, doc, total_pages,
                   first_page_in, pages_found, processed>>
    /\ UNCHANGED pageFrame

\* pdf2docx Converter.convert(docx, start, end) on a document of n pages: the
\* pages range(n)[start : (end or n)], listed 1-based.  end is the index one
\* past the last page converted, and an end of 0 counts as no end.
ConverterPages(start, end, n) ==
    LET stop == IF end = None \/ end[1] = 0 THEN n ELSE Min(end[1], n)
    IN PageSeq(start + 1, stop)

\* cv = Converter(pdf_path); cv.convert(docx_path, start=start_idx[, end=end_idx]);
\* cv.close(); status; showinfo
WordConvert ==
    /\ op = "word" /\ pc = "r_convert"
    /\ \/ \* Converter(pdf_path) raised
          /\ PageRaise("open_failed")
          /\ UNCHANGED <<fs, status_label, pages_found, processed>>
       \/ \* convert raised
          /\ fs' \in AfterFailedSave(fs, output_path, pdf_path)
          /\ PageRaise("convert_failed")
          /\ pages_found' = fs[pdf_path].pages
          /\ UNCHANGED <<status_label, processed>>
       \/ LET n == fs[pdf_path].pages
              got == ConverterPages(start_page, end_page, n)
          IN /\ pages_found' = n
             /\ processed' = got
             /\ fs' = WriteFile(fs, output_path, File("docx", pdf_path, 1, Len(got)))
             /\ status_label' = [kind |-> "Saved as", name |-> Basename(output_path)]
             /\ log' = log \o <<Ev("convert"), Ev("showinfo_success")>>
             /\ pc' = "done"
    /\ progress' = FALSE
    /\ UNCHANGED <<op, nops, pdf_path, output_path, doc, total_pages, first_page_in,
                   last_page_in, start_page, end_page>>
    /\ UNCHANGED pageFrame

\* -------------------------------------------------------------- pdf_to_images
\* start_page and end_page hold first_page and last_page.  The handler starts
\* no progress indicator and sets the status only after the range is chosen.
ImagesStart ==
    /\ op = "idle"
    /\ nops < MaxOps
    /\ nops' = nops + 1
    /\ \E chosen \in ChosenPdf :
          IF chosen = NoPath
          THEN UNCHANGED <<op, pc, log, pdf_path, output_path, doc, total_pages,
                           first_page_in, last_page_in, start_page, end_page,
                           pages_found, processed>>
          ELSE /\ pdf_path' = chosen
               /\ op' = "images"
               /\ pc' = "r_probe"
               /\ log' = << >>
               /\ output_path' = NoPath
               /\ doc' = Unbound
               /\ total_pages' = None
               /\ first_page_in' = None
               /\ last_page_in' = None
               /\ start_page' = 1
               /\ end_page' = None
               /\ pages_found' = 0
               /\ processed' = << >>
    /\ UNCHANGED <<fs, status_label, progress>>
    /\ UNCHANGED pageFrame

\* The probe, then first_page = 1, last_page = None and the test of the ceiling
ImagesProbe ==
    /\ op = "images" /\ pc = "r_probe"
    /\ \E r \in ProbeOutcomes(pdf_path) :
          /\ total_pages' = r.total
          /\ doc' = r.doc
          /\ start_page' = 1
          /\ IF NeedsRange(r.total, MAX_PAGES_FOR_FULL_CONVERSION)
             THEN /\ end_page' = None
                  /\ pc' = "r_ask_start"
             ELSE IF r.total # None
             THEN /\ end_page' = r.total
                  /\ pc' = "r_convert"
             ELSE /\ end_page' = None
                  /\ pc' = "r_convert"
    /\ log' = Append(log, Ev("probe"))
    /\ UNCHANGED <<fs, status_label, progress, op, nops, pdf_path, output_path,
                   first_page_in, last_page_in, pages_found, processed>>
    /\ UNCHANGED pageFrame

ImagesAskStart ==
    /\ op = "images" /\ pc = "r_ask_start"
    /\ \E a \in AskInteger(1, total_pages[1]) :
          /\ first_page_in' = a
          /\ log' = Append(log, Ev("ask_start"))
          /\ pc' = IF a = None THEN "done" ELSE "r_ask_end"
    /\ UNCHANGED <<fs, status_label, progress, op, nops, pdf_path, output_path, doc,
                   total_pages, last_page_in, start_page, end_page, pages_found,
                   processed>>
    /\ UNCHANGED pageFrame

ImagesAskEnd ==
    /\ op = "images" /\ pc = "r_ask_end"
    /\ \E a \in AskInteger(first_page_in[1], total_pages[1]) :
          /\ last_page_in' = a
          /\ log' = Append(log, Ev("ask_end"))
          /\ IF a = None
             THEN /\ pc' = "done"
                  /\ UNCHANGED <<start_page, end_page>>
             ELSE /\ start_page' = first_page_in[1]
                  /\ end_page' = a
                  /\ pc' = "r_convert"
    /\ UNCHANGED <<fs, status_label, progress, op, nops, pdf_path, output_path, doc,
                   total_pages, first_page_in, pages_found, processed>>
    /\ UNCHANGED pageFrame

\* pdf2image convert_from_path(first_page, last_page) on a document of n
\* pages: last_page missing or beyond n becomes n; pages first..last, 1-based
\* and inclusive; nothing when first_page > last_page.
ConvertFromPath(first, last, n) ==
    LET l == IF last = None \/ last[1] > n THEN n ELSE last[1]
    IN PageSeq(first, l)

\* status "Selected"; pages = convert_from_path(**convert_kwargs)
ImagesConvert ==
    /\ op = "images" /\ pc = "r_convert"
    /\ status_label' = [kind |-> "Selected", name |-> Basename(pdf_path)]
    /\ \/ /\ PageRaise("convert_failed")
          /\ UNCHANGED <<pages_found, processed>>
       \/ LET n == fs[pdf_path].pages
          IN /\ pages_found' = n
             /\ processed' = ConvertFromPath(start_page, end_page, n)
             /\ log' = Append(log, Ev("convert"))
             /\ pc' = "r_folder"
    /\ UNCHANGED <<fs, progress, op, nops, pdf_path, output_path, doc, total_pages,
                   first_page_in, last_page_in, start_page, end_page>>
    /\ UNCHANGED pageFrame

\* Faulty variant of ImagesSave: a failing page.save ends the handler silently
ImagesSaveSilent ==
    /\ op = "images" /\ pc = "r_folder"
    /\ \E folder \in {NoPath, OutFolder} :
          /\ output_path' = folder
          /\ IF folder = NoPath
             THEN /\ log' = Append(log, Ev("folder_cancelled"))
                  /\ pc' = "done"
                  /\ UNCHANGED fs
             ELSE \/ /\ fs' = WriteFile(fs, folder,
                                        File("images", pdf_path, 1, Len(processed)))
                     /\ log' = log \o <<Ev("folder"), Ev("write"), Ev("showinfo_done")>>
                     /\ pc' = "done"
                  \/ /\ processed # << >>
                     /\ UNCHANGED fs
                     /\ log' = log \o <<Ev("folder"), Ev("write_failed")>>
                     /\ pc' = "done"
    /\ UNCHANGED <<status_label, progress, op, nops, pdf_path, doc, total_pages,
                   first_page_in, last_page_in, start_page, end_page, pages_found,
                   processed>>
    /\ UNCHANGED pageFrame

\* folder = filedialog.askdirectory(); if not folder: return; page.save for
\* every page; showinfo "Done"
ImagesSave ==
    /\ op = "images" /\ pc = "r_folder"
    /\ \E folder \in {NoPath, OutFolder} :
          /\ output_path' = folder
          /\ IF folder = NoPath
             THEN /\ log' = Append(log, Ev("folder_cancelled"))
                  /\ pc' = "done"
                  /\ UNCHANGED fs
             ELSE \/ /\ fs' = WriteFile(fs, folder,
                                        File("images", pdf_path, 1, Len(processed)))
                     /\ log' = log \o <<Ev("folder"), Ev("write"), Ev("showinfo_done")>>
                     /\ pc' = "done"
                  \/ \* a page.save raised: the pages before it are on disk
                     /\ processed # << >>
                     /\ fs' \in AfterFailedSave(fs, folder, pdf_path)
                     /\ log' = log \o <<Ev("folder"), Ev("write_failed"), Ev("showerror")>>
                     /\ pc' = "done"
    /\ UNCHANGED <<status_label, progress, op, nops, pdf_path, doc, total_pages,
                   first_page_in, last_page_in, start_page, end_page, pages_found,
                   processed>>
    /\ UNCHANGED pageFrame

\* The handler returns to the event loop: its frame and locals are dropped.
PageReturn ==
    /\ op \in PageOps /\ pc = "done"
    /\ op' = "idle"
    /\ pc' = "idle"
    /\ log' = << >>
    /\ pdf_path' = NoPath
    /\ output_path' = NoPath
    /\ doc' = Unbound
    /\ total_pages' = None
    /\ first_page_in' = None
    /\ last_page_in' = None
    /\ start_page' = 1
    /\ end_page' = None
    /\ pages_found' = 0
    /\ processed' = << >>
    /\ UNCHANGED <<fs, status_label, progress, nops>>
    /\ UNCHANGED pageFrame

PageInit ==
    /\ \E p \in PageSamples : fs = PageFs(p)
    /\ last_dropped_paths = << >>
    /\ status_label = [kind |-> "No file selected", name |-> NoPath]
    /\ progress = FALSE
    /\ op = "idle"
    /\ pc = "idle"
    /\ nops = 0
    /\ log = << >>
    /\ pdf_path = NoPath
    /\ quality = DefaultQuality
    /\ dpi = DefaultDpi
    /\ input_size = 0
    /\ output_path = NoPath
    /\ out_size = 0
    /\ page_count = None
    /\ doc = Unbound
    /\ doc_info = Unbound
    /\ files = << >>
    /\ idx = 0
    /\ outcomes = << >>
    /\ total_pages = None
    /\ first_page_in = None
    /\ last_page_in = None
    /\ start_page = 1
    /\ end_page = None
    /\ pages_found = 0
    /\ processed = << >>
    /\ dropped_files = NoQuery
    /\ drop_paths = << >>
    /\ first_run = None
    /\ extracted_text = << >>

PageNext ==
    \/ ExcelStart
    \/ ExcelProbe
    \/ ExcelAskStart
    \/ ExcelAskEnd
    \/ ExcelExtract
    \/ ExcelWrite
    \/ WordStart
    \/ WordProbe
    \/ WordAskStart
    \/ WordAskEnd
    \/ WordConvert
    \/ ImagesStart
    \/ ImagesProbe
    \/ ImagesAskStart
    \/ ImagesAskEnd
    \/ ImagesConvert
    \/ ImagesSave
    \/ DocumentReplaced
    \/ PageReturn
    \/ CompressStart
    \/ CompressGetInputSize
    \/ CompressOpenLossless
    \/ CompressSaveLossless
    \/ CompressMeasure
    \/ CompressProbe
    \/ CompressDecide
    \/ CompressLossyOpen
    \/ CompressRasterize
    \/ CompressLossySave
    \/ CompressFinish
    \/ Return

PageSpec == PageInit /\ [][PageNext]_vars

\* ------------------------------------------------------------------- intake
\* The drop target and get_dropped_files, as every handler calls it on entry.
DocExt == <<".", "d", "o", "c">>

\* Paths the shell can hand over in one drop: two PDFs (one with an upper-case
\* extension), a text file, and a name that is no file
IntakeUniverse == {PathX, PathYUpper, PathTxt, PathGone}

IntakeFs ==
    (PathX :> File("orig", PathX, 2, 1))
    @@ (PathYUpper :> File("orig", PathYUpper, 2, 1))
    @@ (PathTxt :> File("orig", PathTxt, 1, 0))

\* The allowed_exts the handlers pass: (".pdf",) and (".docx", ".doc")
AllowedExtSets == {{PdfExt}, {DocxExt, DocExt}}

IntakeDrop == HandleDroppedFilesFrom(IntakeUniverse)

\* Another program deletes a file
FileRemoved ==
    /\ op = "idle"
    /\ \E p \in DOMAIN fs : fs' = [q \in (DOMAIN fs) \ {p} |-> fs[q]]
    /\ UNCHANGED <<last_dropped_paths, status_label, progress, op, pc, nops, log,
                   pdf_path, quality, dpi, input_size, output_path, out_size,
                   page_count, doc, doc_info, files, idx, outcomes>>
    /\ UNCHANGED rangeVars

\* A handler starts and calls get_dropped_files(allowed_exts, multiple)
QueryDropped ==
    /\ op = "idle"
    /\ nops < MaxOps
    /\ nops' = nops + 1
    /\ \E allowed_exts \in AllowedExtSets, multiple \in BOOLEAN :
          dropped_files' =
              Query(allowed_exts, multiple, GetDroppedFiles(allowed_exts, multiple))
    /\ UNCHANGED <<fs, last_dropped_paths, status_label, progress, op, pc, log,
                   pdf_path, quality, dpi, input_size, output_path, out_size,
                   page_count, doc, doc_info, files, idx, outcomes, total_pages,
                   first_page_in, last_page_in, start_page, end_page, pages_found,
                   processed, drop_paths, first_run, extracted_text>>

IntakeInit ==
    /\ fs = IntakeFs
    /\ last_dropped_paths = << >>
    /\ status_label = [kind |-> "No file selected", name |-> NoPath]
    /\ progress = FALSE
    /\ op = "idle"
    /\ pc = "idle"
    /\ nops = 0
    /\ log = << >>
    /\ pdf_path = NoPath
    /\ quality = DefaultQuality
    /\ dpi = DefaultDpi
    /\ input_size = 0
    /\ output_path = NoPath
    /\ out_size = 0
    /\ page_count = None
    /\ doc = Unbound
    /\ doc_info = Unbound
    /\ files = << >>
    /\ idx = 0
    /\ outcomes = << >>
    /\ total_pages = None
    /\ first_page_in = None
    /\ last_page_in = None
    /\ start_page = 1
    /\ end_page = None
    /\ pages_found = 0
    /\ processed = << >>
    /\ dropped_files = NoQuery
    /\ drop_paths = << >>
    /\ first_run = None
    /\ extracted_text = << >>

IntakeNext ==
    \/ IntakeDrop
    \/ FileRemoved
    \/ QueryDropped

IntakeSpec == IntakeInit /\ [][IntakeNext]_vars

\* ------------------------------------------------ batch_compress, run twice
\* A folder after an earlier batch: a document and a file that carries the name
\* batch_compress derives for it. The two differ in their page counts.
RerunFs ==
    (PathX :> File("orig", PathX, 2, 1))
    @@ (PathXBatchOut :> File("orig", PathXBatchOut, 2, 2))

\* The user drops one or both files on the window and starts batch_compress.
RerunInit ==
    /\ fs = RerunFs
    /\ \E dropped \in DistinctSeqs(DOMAIN RerunFs) \ {<< >>} :
          last_dropped_paths = dropped
    /\ status_label = [kind |-> "Dropped", name |-> Basename(last_dropped_paths[1])]
    /\ progress = FALSE
    /\ op = "idle"
    /\ pc = "idle"
    /\ nops = 0
    /\ log = << >>
    /\ pdf_path = NoPath
    /\ quality = DefaultQuality
    /\ dpi = DefaultDpi
    /\ input_size = 0
    /\ output_path = NoPath
    /\ out_size = 0
    /\ page_count = None
    /\ doc = Unbound
    /\ doc_info = Unbound
    /\ files = << >>
    /\ idx = 0
    /\ outcomes = << >>
    /\ total_pages = None
    /\ first_page_in = None
    /\ last_page_in = None
    /\ start_page = 1
    /\ end_page = None
    /\ pages_found = 0
    /\ processed = << >>
    /\ dropped_files = NoQuery
    /\ drop_paths = << >>
    /\ first_run = None
    /\ extracted_text = << >>

\* batch_compress returns and the user starts it again on the same dropped
\* list: the lines of BatchStart, with the state the first run left kept aside.
BatchRerun ==
    /\ op = "batch" /\ pc = "done"
    /\ first_run = None
    /\ GetDroppedFiles({PdfExt}, TRUE) = Some(files)
    /\ first_run' = Some([fs |-> fs, outcomes |-> outcomes])
    /\ idx' = 1
    /\ pdf_path' = files[1]
    /\ progress' = TRUE
    /\ pc' = "b_getsize"
    /\ log' = << >>
    /\ outcomes' = << >>
    /\ input_size' = 0
    /\ output_path' = NoPath
    /\ out_size' = 0
    /\ doc' = Unbound
    /\ UNCHANGED <<fs, last_dropped_paths, status_label, op, nops, quality, dpi,
                   page_count, doc_info, files, total_pages, first_page_in,
                   last_page_in, start_page, end_page, pages_found, processed,
                   dropped_files, drop_paths, extracted_text>>

RerunNext ==
    \/ BatchStart
    \/ BatchGetInputSize
    \/ BatchOpenLossless
    \/ BatchSaveLossless
    \/ BatchMeasure
    \/ BatchDecide
    \/ BatchLossyOpen
    \/ BatchRasterize
    \/ BatchLossySave
    \/ BatchFinish
    \/ BatchRerun
    \/ Return

RerunSpec == RerunInit /\ [][RerunNext]_vars

\* --------------------------------------------------- drops, as they arrive
\* Paths of the observed drops: a document and a name that is no file
ObservedUniverse == {PathX, PathGone}

\* handle_dropped_files(paths), with its argument kept for the observer
DropObserved ==
    /\ op = "idle"
    /\ \E paths \in DistinctSeqs(ObservedUniverse) :
          /\ HandleDropped(paths)
          /\ drop_paths' = paths
    /\ UNCHANGED <<total_pages, first_page_in, last_page_in, start_page, end_page,
                   pages_found, processed, dropped_files, first_run, extracted_text>>

DropNext ==
    \/ DropObserved
    \/ FileRemoved
    \/ CompressStart
    \/ CompressGetInputSize
    \/ CompressOpenLossless
    \/ CompressSaveLossless
    \/ CompressMeasure
    \/ CompressProbe
    \/ CompressDecide
    \/ CompressLossyOpen
    \/ CompressRasterize
    \/ CompressLossySave
    \/ CompressFinish
    \/ Return

DropSpec == Init /\ [][DropNext]_vars

\* ------------------------------------------ handlers on one small document
\* The most pages a document of the text and split handlers has
MaxDocPages == 2

DocOps == {"text", "split", "image_to_pdf", "decrypt"}

\* Variables none of these handlers assigns
docFrame ==
    <<last_dropped_paths, quality, dpi, input_size, out_size, page_count, doc,
      doc_info, idx, outcomes, total_pages, dropped_files, drop_paths, first_run>>

\* The handler returns to the event loop: its frame and locals are dropped.
DocReturn ==
    /\ op \in DocOps /\ pc = "done"
    /\ op' = "idle"
    /\ pc' = "idle"
    /\ log' = << >>
    /\ pdf_path' = NoPath
    /\ output_path' = NoPath
    /\ files' = << >>
    /\ first_page_in' = None
    /\ last_page_in' = None
    /\ start_page' = 1
    /\ end_page' = None
    /\ pages_found' = 0
    /\ processed' = << >>
    /\ extracted_text' = << >>
    /\ UNCHANGED <<fs, status_label, progress, nops>>
    /\ UNCHANGED docFrame

\* ---------------------------------------------------------------- pdf_to_text
ExtractedSuffix == <<"_", "e", "x", "t", "r", "a", "c", "t", "e", "d", ".", "t", "x", "t">>

TextOutputPath(p) == Stem(p) \o ExtractedSuffix

\* What page.extract_text() does on a page: it returns text, returns nothing
\* (None or ""), or raises
PageTexts == {"text", "", "raises"}

\* The loop over pdf.pages: text = page.extract_text() or "" is appended, and
\* a page that raises is skipped by except Exception: continue.
Segments(texts) ==
    SelectSeq([i \in DOMAIN texts |-> [page |-> i, text |-> texts[i]]],
              LAMBDA r : r.text # "raises")

\* Lines up to self.root.update(): pick the file, start the progress bar.
TextStart ==
    /\ op = "idle"
    /\ nops < MaxOps
    /\ nops' = nops + 1
    /\ \E chosen \in ChosenPdf :
          IF chosen = NoPath
          THEN UNCHANGED <<fs, status_label, progress, op, pc, log, pdf_path,
                           output_path, extracted_text>>
          ELSE /\ pdf_path' = chosen
               /\ status_label' = [kind |-> "Selected", name |-> Basename(chosen)]
               /\ progress' = TRUE
               /\ op' = "text"
               /\ pc' = "t_extract"
               /\ log' = << >>
               /\ output_path' = NoPath
               /\ extracted_text' = << >>
               /\ UNCHANGED fs
    /\ UNCHANGED <<files, first_page_in, last_page_in, start_page, end_page,
                   pages_found, processed>>
    /\ UNCHANGED docFrame

\* output_path = ...; with pdfplumber.open(pdf_path) as pdf: for page in pdf.pages
TextExtract ==
    /\ op = "text" /\ pc = "t_extract"
    /\ output_path' = TextOutputPath(pdf_path)
    /\ \/ /\ pdf_path \in DOMAIN fs
          /\ \E texts \in [1..fs[pdf_path].pages -> PageTexts] :
                extracted_text' = Segments(texts)
          /\ log' = Append(log, Ev("extract"))
          /\ pc' = "t_write"
          /\ UNCHANGED progress
       \/ /\ PageRaise("open_failed")
          /\ progress' = FALSE
          /\ UNCHANGED extracted_text
    /\ UNCHANGED <<fs, status_label, op, nops, pdf_path, files, first_page_in,
                   last_page_in, start_page, end_page, pages_found, processed>>
    /\ UNCHANGED docFrame

\* if not any(extracted_text): warning; else the segments joined by "\f" are
\* written; finally: self.progress.stop()
TextWrite ==
    /\ op = "text" /\ pc = "t_write"
    /\ IF \A k \in 1..Len(extracted_text) : extracted_text[k].text = ""
       THEN /\ log' = Append(log, Ev("showwarning_no_text"))
            /\ UNCHANGED <<fs, status_label>>
       ELSE \/ /\ fs' = WriteFile(fs, output_path,
                                  File("text", pdf_path, 1, Len(extracted_text)))
               /\ status_label' = [kind |-> "Saved as", name |-> Basename(output_path)]
               /\ log' = log \o <<Ev("write"), Ev("status_saved"), Ev("showinfo")>>
            \/ /\ fs' \in AfterFailedSave(fs, output_path, pdf_path)
               /\ log' = log \o <<Ev("write_failed"), Ev("showerror")>>
               /\ UNCHANGED status_label
    /\ progress' = FALSE
    /\ pc' = "done"
    /\ UNCHANGED <<op, nops, pdf_path, output_path, extracted_text, files,
                   first_page_in, last_page_in, start_page, end_page, pages_found,
                   processed>>
    /\ UNCHANGED docFrame

\* ------------------------------------------------------------------ split_pdf
\* The path the user types into the save dialog
PathSplitOut == <<"s">> \o PdfExt

\* simpledialog.askinteger without bounds: None on cancel, else any integer;
\* the answers tried go from 0 to one past the largest page count.
SplitAnswers == {None} \cup {Some(v) : v \in 0..(MaxDocPages + 1)}

\* Lines up to the prompts: pick the file; reader = PdfReader(file) is outside
\* the try statement, so its exception leaves the handler unreported.
SplitStart ==
    /\ op = "idle"
    /\ nops < MaxOps
    /\ nops' = nops + 1
    /\ \E chosen \in ChosenPdf :
          IF chosen = NoPath
          THEN UNCHANGED <<fs, status_label, progress, op, pc, log, pdf_path,
                           output_path, first_page_in, last_page_in, start_page,
                           end_page, pages_found, processed>>
          ELSE /\ pdf_path' = chosen
               /\ op' = "split"
               /\ output_path' = NoPath
               /\ first_page_in' = None
               /\ last_page_in' = None
               /\ start_page' = 1
               /\ end_page' = None
               /\ processed' = << >>
               /\ \/ /\ pages_found' = fs[chosen].pages
                     /\ log' = << >>
                     /\ pc' = "s_ask"
                  \/ /\ pages_found' = 0
                     /\ log' = <<Ev("reader_failed")>>
                     /\ pc' = "done"
               /\ UNCHANGED <<fs, status_label, progress>>
    /\ UNCHANGED <<files, extracted_text>>
    /\ UNCHANGED docFrame

\* not (start is None or end is None or start < 1 or end < start)
SplitValid(start, end) ==
    start # None /\ end # None /\ start[1] >= 1 /\ end[1] >= start[1]

\* The two prompts, both always shown, and the test of their answers
SplitAsk ==
    /\ op = "split" /\ pc = "s_ask"
    /\ \E start \in SplitAnswers, end \in SplitAnswers :
          /\ first_page_in' = start
          /\ last_page_in' = end
          /\ IF SplitValid(start, end)
             THEN /\ start_page' = start[1]
                  /\ end_page' = end
                  /\ log' = log \o <<Ev("ask_start"), Ev("ask_end")>>
                  /\ pc' = "s_write"
             ELSE /\ log' = log \o <<Ev("ask_start"), Ev("ask_end"),
                                     Ev("showwarning_invalid")>>
                  /\ pc' = "done"
                  /\ UNCHANGED <<start_page, end_page>>
    /\ UNCHANGED <<fs, status_label, progress, op, nops, pdf_path, output_path,
                   files, pages_found, processed, extracted_text>>
    /\ UNCHANGED docFrame

\* for i in range(start - 1, min(end, len(reader.pages))): writer.add_page(...);
\* the save dialog; the file is written when a path was given.
SplitWrite ==
    /\ op = "split" /\ pc = "s_write"
    /\ \/ /\ processed' =
                [k \in DOMAIN PyRange(start_page - 1, Min(end_page[1], pages_found)) |->
                    PyRange(start_page - 1, Min(end_page[1], pages_found))[k] + 1]
          /\ \E save_path \in {NoPath, PathSplitOut} :
                /\ output_path' = save_path
                /\ IF save_path = NoPath
                   THEN /\ log' = Append(log, Ev("asksaveasfilename_cancelled"))
                        /\ UNCHANGED fs
                   ELSE \/ /\ fs' = WriteFile(fs, save_path,
                                              File("split", pdf_path, 1, Len(processed')))
                           /\ log' = log \o <<Ev("write"), Ev("showinfo"), Ev("preview")>>
                        \/ /\ fs' \in AfterFailedSave(fs, save_path, pdf_path)
                           /\ log' = log \o <<Ev("write_failed"), Ev("showerror")>>
       \/ /\ log' = log \o <<Ev("add_page_failed"), Ev("showerror")>>
          /\ UNCHANGED <<fs, output_path, processed>>
    /\ pc' = "done"
    /\ UNCHANGED <<status_label, progress, op, nops, pdf_path, files, first_page_in,
                   last_page_in, start_page, end_page, pages_found, extracted_text>>
    /\ UNCHANGED docFrame

\* The document on disk: one with 1..MaxDocPages pages
DocInit ==
    /\ \E n \in 1..MaxDocPages : fs = PageFs(n)
    /\ last_dropped_paths = << >>
    /\ status_label = [kind |-> "No file selected", name |-> NoPath]
    /\ progress = FALSE
    /\ op = "idle"
    /\ pc = "idle"
    /\ nops = 0
    /\ log = << >>
    /\ pdf_path = NoPath
    /\ quality = DefaultQuality
    /\ dpi = DefaultDpi
    /\ input_size = 0
    /\ output_path = NoPath
    /\ out_size = 0
    /\ page_count = None
    /\ doc = Unbound
    /\ doc_info = Unbound
    /\ files = << >>
    /\ idx = 0
    /\ outcomes = << >>
    /\ total_pages = None
    /\ first_page_in = None
    /\ last_page_in = None
    /\ start_page = 1
    /\ end_page = None
    /\ pages_found = 0
    /\ processed = << >>
    /\ dropped_files = NoQuery
    /\ drop_paths = << >>
    /\ first_run = None
    /\ extracted_text = << >>

DocNext ==
    \/ TextStart
    \/ TextExtract
    \/ TextWrite
    \/ SplitStart
    \/ SplitAsk
    \/ SplitWrite
    \/ DocReturn

DocSpec == DocInit /\ [][DocNext]_vars

\* --------------------------------------------------------------- image_to_pdf
\* An image the file dialog offers, and the path typed into the save dialog
PathPng == <<"i", ".", "p", "n", "g">>
PathImagesOut == <<"o">> \o PdfExt

\* Of allowed_exts, the extension of the modelled image
ImageExts == {<<".", "p", "n", "g">>}

\* Lines up to self.root.update(): the dropped images, else the dialog's
\* selection; the progress bar starts.
ImageToPdfStart ==
    /\ op = "idle"
    /\ nops < MaxOps
    /\ nops' = nops + 1
    /\ LET dropped == GetDroppedFiles(ImageExts, TRUE)
       IN \E img_paths \in (IF dropped # None THEN {dropped[1]}
                            ELSE DistinctSeqs({PathPng})) :
            IF img_paths = << >>
            THEN UNCHANGED <<status_label, progress, op, pc, log, pdf_path,
                             output_path, files, processed>>
            ELSE /\ files' = img_paths
                 /\ status_label' = [kind |-> "Selected images", name |-> NoPath]
                 /\ progress' = TRUE
                 /\ op' = "image_to_pdf"
                 /\ pc' = "i_save_as"
                 /\ log' = << >>
                 /\ pdf_path' = NoPath
                 /\ output_path' = NoPath
                 /\ processed' = << >>
    /\ UNCHANGED <<fs, first_page_in, last_page_in, start_page, end_page,
                   pages_found, extracted_text>>
    /\ UNCHANGED docFrame

\* Faulty variant of ImageToPdfAskSaveAs: the cancelled dialog returns without
\* stopping the progress bar
ImageToPdfAskSaveAsLeaving ==
    /\ op = "image_to_pdf" /\ pc = "i_save_as"
    /\ \E answer \in {NoPath, PathImagesOut} :
          /\ output_path' = answer
          /\ IF answer = NoPath
             THEN /\ log' = Append(log, Ev("asksaveasfilename_cancelled"))
                  /\ pc' = "done"
                  /\ UNCHANGED progress
             ELSE /\ log' = Append(log, Ev("asksaveasfilename"))
                  /\ pc' = "i_convert"
                  /\ UNCHANGED progress
    /\ UNCHANGED <<fs, status_label, op, nops, pdf_path, files, first_page_in,
                   last_page_in, start_page, end_page, pages_found, processed,
                   extracted_text>>
    /\ UNCHANGED docFrame

\* pdf_path = asksaveasfilename(...); if not pdf_path: return, inside the try
\* statement whose finally stops the progress bar
ImageToPdfAskSaveAs ==
    /\ op = "image_to_pdf" /\ pc = "i_save_as"
    /\ \E answer \in {NoPath, PathImagesOut} :
          /\ output_path' = answer
          /\ IF answer = NoPath
             THEN /\ log' = Append(log, Ev("asksaveasfilename_cancelled"))
                  /\ pc' = "done"
                  /\ progress' = FALSE
             ELSE /\ log' = Append(log, Ev("asksaveasfilename"))
                  /\ pc' = "i_convert"
                  /\ UNCHANGED progress
    /\ UNCHANGED <<fs, status_label, op, nops, pdf_path, files, first_page_in,
                   last_page_in, start_page, end_page, pages_found, processed,
                   extracted_text>>
    /\ UNCHANGED docFrame

\* The loop that re-encodes the readable images, the warning when none is
\* left, img2pdf.convert and the write; finally: self.progress.stop()
ImageToPdfConvert ==
    /\ op = "image_to_pdf" /\ pc = "i_convert"
    /\ \E readable \in SUBSET (1..Len(files)) :
          /\ processed' = FilterSeq([k \in 1..Len(files) |-> k], readable)
          /\ IF readable = {}
             THEN /\ log' = Append(log, Ev("showwarning_no_images"))
                  /\ UNCHANGED <<fs, status_label>>
             ELSE \/ /\ fs' = WriteFile(fs, output_path,
                                        File("images", files[1], 1, Cardinality(readable)))
                     /\ \E previewOk \in BOOLEAN :
                           status_label' =
                               IF previewOk
                               THEN [kind |-> "Saved as", name |-> Basename(output_path)]
                               ELSE [kind |-> "Preview unavailable", name |-> NoPath]
                     /\ log' = log \o <<Ev("write"), Ev("status_saved"), Ev("preview")>>
                  \/ /\ fs' \in AfterFailedSave(fs, output_path, files[1])
                     /\ log' = log \o <<Ev("write_failed"), Ev("showerror")>>
                     /\ UNCHANGED status_label
    /\ progress' = FALSE
    /\ pc' = "done"
    /\ UNCHANGED <<op, nops, pdf_path, output_path, files, first_page_in,
                   last_page_in, start_page, end_page, pages_found, extracted_text>>
    /\ UNCHANGED docFrame

\* ---------------------------------------------------------------- decrypt_pdf
DecryptedSuffix == <<"_", "d", "e", "c", "r", "y", "p", "t", "e", "d">> \o PdfExt

\* Lines up to self.root.update(): pick the file and ask the password; either
\* dialog cancelled returns before the progress bar starts.
DecryptStart ==
    /\ op = "idle"
    /\ nops < MaxOps
    /\ nops' = nops + 1
    /\ \E chosen \in ChosenPdf, password \in {None, Some("secret")} :
          IF chosen = NoPath \/ password = None
          THEN UNCHANGED <<status_label, progress, op, pc, log, pdf_path, output_path>>
          ELSE /\ pdf_path' = chosen
               /\ progress' = TRUE
               /\ op' = "decrypt"
               /\ pc' = "d_run"
               /\ log' = <<Ev("askstring")>>
               /\ output_path' = NoPath
               /\ UNCHANGED status_label
    /\ UNCHANGED <<fs, files, first_page_in, last_page_in, start_page, end_page,
                   pages_found, processed, extracted_text>>
    /\ UNCHANGED docFrame

\* The body of the try statement: the decrypted copy is saved and reported, or
\* the password is refused (showerror and return), or another exception is
\* reported; finally: self.progress.stop()
DecryptRun ==
    /\ op = "decrypt" /\ pc = "d_run"
    /\ \/ /\ pdf_path \in DOMAIN fs
          /\ output_path' = Stem(pdf_path) \o DecryptedSuffix
          /\ fs' = WriteFile(fs, output_path',
                             File("decrypted", pdf_path, fs[pdf_path].size,
                                  fs[pdf_path].pages))
          /\ \E previewOk \in BOOLEAN :
                status_label' =
                    IF previewOk
                    THEN [kind |-> "Decrypted", name |-> Basename(output_path')]
                    ELSE [kind |-> "Preview unavailable", name |-> NoPath]
          /\ log' = log \o <<Ev("write"), Ev("status_decrypted"), Ev("showinfo"),
                             Ev("preview")>>
       \/ /\ log' = log \o <<Ev("password_refused"), Ev("showerror")>>
          /\ UNCHANGED <<fs, status_label, output_path>>
       \/ /\ output_path' = Stem(pdf_path) \o DecryptedSuffix
          /\ fs' \in AfterFailedSave(fs, output_path', pdf_path)
          /\ log' = log \o <<Ev("write_failed"), Ev("showerror")>>
          /\ UNCHANGED status_label
    /\ progress' = FALSE
    /\ pc' = "done"
    /\ UNCHANGED <<op, nops, pdf_path, files, first_page_in, last_page_in,
                   start_page, end_page, pages_found, processed, extracted_text>>
    /\ UNCHANGED docFrame

\* ------------------------------------- the handlers that show the progress bar
\* The page-range handlers and compress_pdf with image_to_pdf and decrypt_pdf
ProgressNext ==
    \/ PageNext
    \/ ImageToPdfStart
    \/ ImageToPdfAskSaveAs
    \/ ImageToPdfConvert
    \/ DecryptStart
    \/ DecryptRun
    \/ DocReturn

ProgressSpec == PageInit /\ [][ProgressNext]_vars

\* ------------------------------------------------------------- observations
HasEv(e) == \E i \in 1..Len(log) : log[i].ev = e

CountEv(e) == Cardinality({i \in 1..Len(log) : log[i].ev = e})

Failures ==
    {"input_size_failed", "open_failed", "lossless_save_failed", "measure_failed",
     "lossy_open_failed", "rasterize_failed", "lossy_save_failed"}

Failed == \E i \in 1..Len(log) : log[i].ev \in Failures

\* The step of the compression pipeline an event belongs to ("" for dialogs
\* and status updates)
StepOf(e) ==
    CASE e \in {"input_size", "input_size_failed"} -> "input_size"
      [] e \in {"open", "open_failed"} -> "open"
      [] e \in {"lossless_save", "lossless_save_failed"} -> "lossless_save"
      [] e \in {"measure", "measure_failed"} -> "measure"
      [] e = "probe" -> "probe"
      [] e \in {"decide_lossy", "decide_keep"} -> "decide"
      [] e \in {"lossy_open", "lossy_open_failed"} -> "lossy_open"
      [] e \in {"rasterize", "rasterize_failed"} -> "rasterize"
      [] e \in {"lossy_save", "lossy_save_failed"} -> "lossy_save"
      [] OTHER -> ""

IsPipelineEvent(r) == StepOf(r.ev) # ""

\* The pipeline steps taken so far by the running call (or batch item)
StepsTaken ==
    LET evs == SelectSeq(log, IsPipelineEvent)
    IN [i \in 1..Len(evs) |-> StepOf(evs[i].ev)]

IsPrefix(s, t) == Len(s) <= Len(t) /\ s = SubSeq(t, 1, Len(s))

CompressOrder ==
    <<"input_size", "open", "lossless_save", "measure", "probe", "decide",
      "lossy_open", "rasterize", "lossy_save">>

BatchOrder ==
    <<"input_size", "open", "lossless_save", "measure", "decide",
      "lossy_open", "rasterize", "lossy_save">>

LossyEvents ==
    {"lossy_open", "lossy_open_failed", "rasterize", "rasterize_failed",
     "lossy_save", "lossy_save_failed"}

LossyPassRan == \E i \in 1..Len(log) : log[i].ev \in LossyEvents

\* The running call has taken the lossy branch
LossyPassEntered == pc \in {"lossy_open", "rasterize", "lossy_save"} \/ LossyPassRan

Decided == pc \in {"lossy_open", "rasterize", "lossy_save", "finish"}
           \/ (pc = "done" /\ (HasEv("decide_lossy") \/ HasEv("decide_keep")))

\* ------------------------------------------------------------------ claims
\* C1: in compress_pdf the lossy pass runs if and only if the measured lossless
\* output is not smaller than the input and the page count is unknown or at
\* most 500; the sizes compared are those of the input file and of the
\* lossless result on disk.
C1_EscalationIff ==
    /\ (op = "compress" /\ pc \in {"probe", "decide"}) =>
          /\ input_size = fs[pdf_path].size
          /\ out_size = fs[output_path].size
          /\ fs[output_path].kind = "lossless"
    /\ (op = "compress" /\ Decided) =>
          (LossyPassEntered
             <=> (/\ out_size >= input_size
                  /\ (page_count = None \/ page_count[1] <= 500)))
    /\ (op = "compress" /\ Decided /\ out_size < input_size) => ~LossyPassEntered

\* C1 witness: equal sizes, 500 pages counted, and the pages were rasterized
C1_Witness ==
    /\ op = "compress"
    /\ out_size = input_size
    /\ page_count = Some(500)
    /\ HasEv("rasterize")

\* C2: in compress_pdf and in every batch_compress item the steps are taken in
\* the order input size, open, lossless save, measure, (probe,) decide, lossy
\* open, rasterize, lossy save, none skipped and none repeated; when the
\* decision is evaluated the lossless result is on disk and out_size is its
\* measured size, and nothing of the lossy pass precedes that measurement.
C2_LosslessMeasuredFirst ==
    /\ op = "compress" => IsPrefix(StepsTaken, CompressOrder)
    /\ op = "batch" => IsPrefix(StepsTaken, BatchOrder)
    /\ pc \in {"decide", "b_decide"} =>
          /\ HasEv("lossless_save") /\ HasEv("measure") /\ ~LossyPassRan
          /\ fs[output_path].kind = "lossless"
          /\ fs[output_path].src = pdf_path
          /\ out_size = fs[output_path].size
    /\ LossyPassEntered => HasEv("measure") /\ HasEv("decide_lossy")

\* C2 witness: a compress_pdf call that took all nine steps, the lossy save last
C2_Witness ==
    /\ op = "compress" /\ pc = "finish"
    /\ StepsTaken = CompressOrder

\* C3: in compress_pdf a document counted at more than 500 pages whose lossless
\* result is not smaller than the input is not rasterized, keeps the lossless
\* result at the output path and gets the "Skipped Fallback" notice; the
\* notice appears in no other case.
C3_LargeDocumentGuard ==
    /\ (/\ op = "compress" /\ Decided
        /\ page_count # None /\ page_count[1] > 500
        /\ out_size >= input_size) =>
          /\ ~LossyPassEntered
          /\ CountEv("showinfo_skipped") = 1
          /\ fs[output_path] = File("lossless", pdf_path, out_size, fs[pdf_path].pages)
    /\ HasEv("showinfo_skipped") =>
          /\ op = "compress"
          /\ page_count # None /\ page_count[1] > 500
          /\ out_size >= input_size

\* C3 witness: a finished call on the 501-page document that showed the notice
\* for a lossless result of the input's size
C3_Witness ==
    /\ op = "compress" /\ pc = "done"
    /\ HasEv("showinfo_skipped")
    /\ page_count = Some(501)
    /\ out_size = input_size
    /\ fs[output_path].kind = "lossless"

BatchLossyEntered == op = "batch" /\ pc \in {"b_lossy_open", "b_rasterize", "b_lossy_save"}

\* C4 (as claimed): a batch_compress item is rasterized only where compress_pdf
\* would rasterize the same document: its lossless result is not smaller than
\* the input and it has at most 500 pages.
C4_BatchDecisionAsCompress ==
    BatchLossyEntered =>
        /\ out_size >= input_size
        /\ fs[pdf_path].pages <= 500

\* C5: batch_compress takes the paths of files one by one in order, each
\* exactly once, whatever happened to the earlier ones; when the loop is over
\* every path has been attempted, and no error dialog is ever shown.
C5_BatchIsolation ==
    op = "batch" =>
        /\ \A i \in 1..Len(outcomes) : outcomes[i].path = files[i]
        /\ pc \notin {"b_finish", "done"} =>
              /\ idx \in 1..Len(files)
              /\ Len(outcomes) = idx - 1
              /\ pdf_path = files[idx]
        /\ pc \in {"b_finish", "done"} => Len(outcomes) = Len(files)
        /\ ~HasEv("showerror")

\* C5 witness: a finished batch of two whose first item failed and whose second
\* item was compressed
C5_Witness ==
    /\ op = "batch" /\ pc = "done"
    /\ Len(files) = 2
    /\ outcomes[1].result = "error"
    /\ outcomes[2].result # "error"

ErrorItems == {i \in 1..Len(outcomes) : outcomes[i].result = "error"}

\* The output of item i is a compression result made from that item
OutputWritten(i) ==
    LET out == BatchOutputPath(files[i])
    IN /\ out \in DOMAIN fs
       /\ fs[out].kind \in {"lossless", "lossy"}
       /\ fs[out].src = files[i]

PathSamples ==
    {PathX, PathYUpper, PathXBatchOut, PathTxt, PathGone, PdfExt, <<"x">>,
     CompressedSuffix, <<"d", ".", "v", "/", "n">>, <<".", ".", "p">>}

\* C7: no step of compress_pdf changes the input file: the output path differs
\* from the input path and is the only path a step creates or changes.
C7_InputNeverWritten ==
    [][op' = "compress" =>
          /\ \A p \in PathSamples : CompressOutputPath(p) # p
          /\ output_path' \in {NoPath, CompressOutputPath(pdf_path')}
          /\ output_path' # pdf_path'
          /\ pdf_path' \in DOMAIN fs /\ fs'[pdf_path'] = fs[pdf_path']
          /\ \A q \in DOMAIN fs' :
                (q \notin DOMAIN fs \/ fs'[q] # fs[q]) =>
                    q = output_path' /\ q # pdf_path']_vars

\* C7 witness: the lossy save failed and left a truncated file at the output
\* path; the input is as it was
C7_Witness ==
    /\ op = "compress" /\ pc = "done"
    /\ HasEv("lossy_save_failed")
    /\ fs[output_path].kind = "partial"
    /\ fs[pdf_path] = InitFs[pdf_path]

\* C8: a failure in compress_pdf ends the call at once with exactly one error
\* dialog; the status never becomes "Saved as" and no preview is made.
C8_SingleError ==
    /\ (op = "compress" /\ Failed) =>
          /\ pc = "done"
          /\ CountEv("showerror") = 1
          /\ Len(log) >= 2
          /\ log[Len(log)].ev = "showerror"
          /\ log[Len(log) - 1].ev \in Failures
          /\ Cardinality({i \in 1..Len(log) : log[i].ev \in Failures}) = 1
          /\ ~HasEv("status_saved")
          /\ ~HasEv("preview")
          /\ status_label.kind # "Saved as"
          /\ ~progress
    /\ (op = "compress" /\ ~Failed) => ~HasEv("showerror")

\* C8 witness: the lossy save failed after everything before it succeeded
C8_Witness ==
    /\ op = "compress" /\ pc = "done"
    /\ HasEv("lossy_save_failed")
    /\ HasEv("showerror")

\* C9 (as claimed): when compress_pdf or batch_compress is over, and whenever
\* batch_compress starts an item, no document opened before is still open.
C9_HandlesClosed ==
    /\ pc = "done" => doc.state # "open" /\ doc_info.state # "open"
    /\ (op = "batch" /\ pc = "b_getsize") => doc.state # "open"

\* C10: once the lossy save succeeded the output path holds the rasterized
\* document, whatever its size: nothing restores the lossless result.
C10_LossyReplaces ==
    /\ (op = "compress" /\ HasEv("lossy_save")) =>
          fs[output_path] = File("lossy", pdf_path, fs[output_path].size,
                                 fs[pdf_path].pages)
    /\ op = "batch" =>
          \A i \in 1..Len(outcomes) :
              outcomes[i].result = "lossy" =>
                  /\ fs[BatchOutputPath(files[i])].kind = "lossy"
                  /\ fs[BatchOutputPath(files[i])].src = files[i]

\* C10 witness: the final output is the lossy result and is larger than the
\* input and than the lossless result
C10_Witness ==
    /\ op = "compress" /\ pc = "done"
    /\ HasEv("lossy_save")
    /\ fs[output_path].kind = "lossy"
    /\ fs[output_path].size > input_size
    /\ fs[output_path].size > out_size

\* ------------------------------------------- claims on the page-range operations
\* The page prompt is on screen or has been answered
PromptShown == pc = "r_ask_start" \/ HasEv("ask_start")

\* The 1-based first and last page the handler's locals stand for on a document
\* of n pages (pdf_to_word keeps zero-based indices, an unset end means the
\* last page)
SelectedSpan(n) ==
    IF op = "word"
    THEN <<start_page + 1, IF end_page = None THEN n ELSE end_page[1] + 1>>
    ELSE <<start_page, IF end_page = None THEN n ELSE end_page[1]>>

\* The locals as a 1-based {start, end} pair, end unset where the local is None
SelectedRange ==
    IF op = "word"
    THEN <<start_page + 1, IF end_page = None THEN None ELSE Some(end_page[1] + 1)>>
    ELSE <<start_page, end_page>>

\* The prompt for the end page was answered with a page
RangePrompted == HasEv("ask_end") /\ last_page_in # None

\* The conversion step finished without raising
Converted == HasEv("extract") \/ HasEv("convert")

CancelledAtPrompt ==
    /\ op \in PageOps /\ pc = "done"
    /\ \/ HasEv("ask_start") /\ first_page_in = None
       \/ HasEv("ask_end") /\ last_page_in = None

\* C12: when the start-page or the end-page prompt returns no value the
\* operation is cancelled: the step that receives the cancellation writes no
\* file and opens no document, nothing runs after it, no error is shown, and
\* after a cancelled start prompt the end prompt is never shown.
C12_CancelStopsEverything ==
    /\ [](CancelledAtPrompt =>
            /\ ~HasEv("showerror")
            /\ log[Len(log)].ev \in {"ask_start", "ask_end"}
            /\ ~Converted
            /\ processed = << >>
            /\ doc.state # "open"
            /\ first_page_in = None => ~HasEv("ask_end"))
    /\ [][(op \in PageOps /\ pc \in {"r_ask_start", "r_ask_end"} /\ pc' = "done")
            => (fs' = fs /\ doc' = doc /\ CancelledAtPrompt')]_vars

\* C12 witness: pdf_to_excel ended by a cancelled end-page prompt
C12_Witness ==
    /\ op = "excel" /\ pc = "done"
    /\ first_page_in # None /\ last_page_in = None
    /\ HasEv("ask_end")
    /\ ~progress

\* C13: a range that results from prompting satisfies
\* 1 <= start <= end <= page_count and is the pair of answers given.
C13_PromptedRangeOrdered ==
    (op \in PageOps /\ RangePrompted) =>
        LET span == SelectedSpan(total_pages[1])
        IN /\ 1 <= span[1]
           /\ span[1] <= span[2]
           /\ span[2] <= total_pages[1]
           /\ span = <<first_page_in[1], last_page_in[1]>>

\* C13 witness: pdf_to_excel with the range 2..page_count
C13_Witness ==
    /\ op = "excel" /\ pc = "r_convert"
    /\ first_page_in = Some(2)
    /\ last_page_in = total_pages

\* C14: a selected range [s, e] is a 1-based inclusive span: on a document that
\* still has the probed number of pages, the pages processed by each of the
\* three operations are exactly s..e.
C14_InclusiveSpanProcessed ==
    (/\ op \in PageOps
     /\ RangePrompted
     /\ Converted
     /\ pages_found = total_pages[1])
        => processed = PageSeq(first_page_in[1], last_page_in[1])

\* The range a page count and the two answers lead to under the one policy:
\* the answers when the count is above 100, 1..count when it is known, and
\* from 1 with no end when it is unknown
PolicyRange(total, first, last) ==
    IF total # None /\ total[1] > 100 THEN <<first[1], last>>
    ELSE IF total # None THEN <<1, total>>
    ELSE <<1, None>>

\* C15: for every probed page count and pair of prompt answers the three
\* operations arrive at the same range, with end = page_count when the count is
\* known and no prompt is needed and an unknown end only for an unknown count.
C15_SamePolicyEverywhere ==
    (op \in PageOps /\ pc = "r_convert") =>
        SelectedRange = PolicyRange(total_pages, first_page_in, last_page_in)

\* C15 (amended): the three operations prompt on the same condition and arrive
\* at the same start and, after prompting, the same end; without a prompt
\* pdf_to_excel and pdf_to_images take end = page_count for a known count, while
\* pdf_to_word leaves its end unset whether the count is known or not.
C15_SamePolicyUpToUnsetEnd ==
    (op \in PageOps /\ pc = "r_convert") =>
        LET policy == PolicyRange(total_pages, first_page_in, last_page_in)
        IN /\ SelectedRange[1] = policy[1]
           /\ SelectedRange[2] =
                 (IF op = "word" /\ ~RangePrompted THEN None ELSE policy[2])
           /\ RangePrompted <=> (total_pages # None /\ total_pages[1] > 100)

\* C15 witness: pdf_to_word on a 100-page document, end left unset
C15_Witness ==
    /\ op = "word" /\ pc = "r_convert"
    /\ total_pages = Some(100)
    /\ end_page = None
    /\ start_page = 0

\* The event logged right after the probe, "" when the probe is the last one
AfterProbe ==
    LET at == {i \in 1..Len(log) : log[i].ev = "probe"}
    IN IF at = {} THEN ""
       ELSE LET i == CHOOSE k \in at : TRUE
            IN IF i < Len(log) THEN log[i + 1].ev ELSE ""

C17_ExcelClampsToAvailable ==
    (/\ op = "excel"
     /\ HasEv("extract")
     /\ end_page # None
     /\ end_page[1] > pages_found)
        => /\ processed = PageSeq(start_page, pages_found)
           /\ HasEv("showerror") => HasEv("write_failed")
           /\ HasEv("write") => fs[output_path].pages = Len(processed)

\* C17 witness: a workbook written from a document that lost its last page
\* after the probe
C17_Witness ==
    /\ op = "excel" /\ pc = "done"
    /\ HasEv("write")
    /\ end_page # None
    /\ end_page[1] = pages_found + 1
    /\ processed # << >>

\* C18: once the conversion pass of pdf_to_images or the compression pass of
\* compress_pdf has started, the operation ends with its output written or with
\* a failure reported; no later answer of the user ends it without output.
C18_NoAbortAfterPassStarted ==
    /\ (op = "images" /\ pc = "done" /\ HasEv("convert")) =>
          (HasEv("write") \/ HasEv("showerror"))
    /\ (op = "compress" /\ pc = "done") =>
          (HasEv("status_saved") \/ HasEv("showerror"))

\* C18 (amended): the passes themselves cannot be cancelled, but after the
\* conversion pass pdf_to_images asks for the output folder, and cancelling
\* that dialog ends the operation with nothing written and no error; apart from
\* that it ends with its images written or a failure reported, and compress_pdf
\* ends with its output saved or a failure reported.
C18_OnlyFolderDialogAborts ==
    /\ (op = "images" /\ pc = "done" /\ HasEv("convert")) =>
          \/ HasEv("write")
          \/ HasEv("showerror")
          \/ /\ log[Len(log)].ev = "folder_cancelled"
             /\ output_path = NoPath
    /\ (op = "images" /\ pc = "r_folder") => HasEv("convert")
    /\ (op = "compress" /\ pc = "done") =>
          (HasEv("status_saved") \/ HasEv("showerror"))

\* C18 witness: pdf_to_images ended by a cancelled folder dialog after the
\* conversion
C18_Witness ==
    /\ op = "images" /\ pc = "done"
    /\ HasEv("convert")
    /\ HasEv("folder_cancelled")
    /\ processed # << >>
    /\ OutFolder \notin DOMAIN fs

\* ------------------------------------------------------- claims on the intake
\* The positions of the retained paths that pass the filter of a query
Matching(q) ==
    {i \in 1..Len(last_dropped_paths) :
        /\ Lower(Ext(last_dropped_paths[i])) \in q.allowed_exts
        /\ last_dropped_paths[i] \in DOMAIN fs}

\* The k-th smallest element of a set of positions
Kth(M, k) == CHOOSE i \in M : Cardinality({j \in M : j <= i}) = k

\* C19: get_dropped_files returns the retained paths whose extension is, case
\* aside, among allowed_exts and that are files at the time of the call, in
\* their order; with multiple false only the first of them, as a one-element
\* list; and None, never an empty list, when there is none.
C19_DroppedFilesFiltered ==
    [][nops' # nops /\ dropped_files' # dropped_files =>
          LET q == dropped_files'
              M == Matching(q)
          IN /\ q.result # Some(<< >>)
             /\ q.result = None <=> M = {}
             /\ (q.result # None /\ q.multiple) =>
                   /\ Len(q.result[1]) = Cardinality(M)
                   /\ \A k \in 1..Cardinality(M) :
                         q.result[1][k] = last_dropped_paths[Kth(M, k)]
             /\ (q.result # None /\ ~q.multiple) =>
                   q.result[1] = <<last_dropped_paths[Kth(M, 1)]>>]_vars

\* C19 witness: of three retained paths the first has been deleted since the
\* drop and the second is a text file; the query for PDFs returns the third,
\* whose extension is upper-case
C19_Witness ==
    /\ last_dropped_paths = <<PathX, PathTxt, PathYUpper>>
    /\ PathX \notin DOMAIN fs
    /\ dropped_files = Query({PdfExt}, TRUE, Some(<<PathYUpper>>))

\* The name written before the extension of an output
CompressedTag == <<"_", "c", "o", "m", "p", "r", "e", "s", "s", "e", "d">>
BatchCompressedTag == <<"_", "b", "a", "t", "c", "h">> \o CompressedTag

\* C20: compress_pdf writes stem + "_compressed" + the input's original
\* extension and batch_compress stem + "_batch_compressed" + the original
\* extension, also for an input whose extension is upper-case.  (In
\* batch_compress output_path belongs to the current item once the item's size
\* has been read.)
C20_OriginalExtensionKept ==
    /\ (op = "compress" /\ output_path # NoPath) =>
          output_path = Stem(pdf_path) \o CompressedTag \o Ext(pdf_path)
    /\ (op = "batch" /\ HasEv("input_size")) =>
          output_path = Stem(pdf_path) \o BatchCompressedTag \o Ext(pdf_path)

\* C20 (amended): the output name is the input stem followed by
\* "_compressed.pdf" (compress_pdf) or "_batch_compressed.pdf"
\* (batch_compress): the extension written is always the lower-case ".pdf",
\* whatever the case of the input's extension, and the file is written there.
C20_FixedPdfExtension ==
    /\ (op = "compress" /\ output_path # NoPath) =>
          /\ output_path = Stem(pdf_path) \o CompressedTag \o PdfExt
          /\ HasEv("lossless_save") => output_path \in DOMAIN fs
    /\ (op = "batch" /\ HasEv("input_size")) =>
          /\ output_path = Stem(pdf_path) \o BatchCompressedTag \o PdfExt
          /\ HasEv("lossless_save") => output_path \in DOMAIN fs

\* C20 witness: compress_pdf on y.PDF has written y_compressed.pdf
C20_Witness ==
    /\ op = "compress" /\ pc = "done"
    /\ pdf_path = PathYUpper
    /\ Ext(pdf_path) # PdfExt
    /\ output_path = <<"y">> \o CompressedTag \o PdfExt
    /\ output_path \in DOMAIN fs

\* ------------------------------------------------ claims on repeated batches
\* The items of the running batch that ended without an exception
DoneItems == {i \in 1..Len(outcomes) : outcomes[i].result # "error"}

\* C21: within one batch_compress run, two input paths whose stems differ are
\* written to different output paths: the names derived for them differ and
\* each of the two outputs holds the result made from its own input.
C21_DistinctStemsDistinctOutputs ==
    op = "batch" =>
        \A i, j \in DoneItems :
            (i < j /\ Stem(files[i]) # Stem(files[j])) =>
                /\ BatchOutputPath(files[i]) # BatchOutputPath(files[j])
                /\ OutputWritten(i)
                /\ OutputWritten(j)

\* C21 witness: a batch of two files with different stems has finished both.
C21_Witness ==
    /\ op = "batch" /\ pc = "done"
    /\ DoneItems = {1, 2}
    /\ Stem(files[1]) # Stem(files[2])
    /\ OutputWritten(1) /\ OutputWritten(2)

\* What a file holds that no size produced by the codec decides: where it was
\* made from and how many pages it has
Provenance(f) == [src |-> f.src, pages |-> f.pages]

\* C22 (as claimed): after batch_compress has run twice on the same list
\* without any item failing, the second run leaves the same files as the first,
\* each made from the same source with the same pages.
C22_RerunLeavesSameFiles ==
    (/\ first_run # None
     /\ op = "batch" /\ pc = "done"
     /\ ErrorItems = {}
     /\ \A i \in 1..Len(first_run[1].outcomes) :
            first_run[1].outcomes[i].result # "error")
    => /\ DOMAIN fs = DOMAIN first_run[1].fs
       /\ \A p \in DOMAIN fs : Provenance(fs[p]) = Provenance(first_run[1].fs[p])

\* C27 (as claimed): while a batch runs, no file that is an input of the batch
\* is written.
C27_InputsNeverOverwritten ==
    [][(op = "batch" /\ op' = "batch") =>
          \A i \in 1..Len(files) :
              files[i] \in DOMAIN fs =>
                  (files[i] \in DOMAIN fs' /\ fs'[files[i]] = fs[files[i]])]_vars

\* ------------------------------------------------- claims on compress_pdf
\* C23: the lossy request of compress_pdf has a quality within [1, 100] and a
\* dpi within [72, 300]; a cancelled quality prompt gives 80 and a cancelled
\* dpi prompt gives 150 while the operation goes on; neither value changes
\* from the prompts to the end of the call.
C23_QualityAndDpiFixedInRange ==
    /\ [](op = "compress" =>
            /\ quality \in MinQuality..MaxQuality
            /\ dpi \in MinDpi..MaxDpi
            /\ (HasEv("quality_cancelled") \/ HasEv("quality_entered"))
            /\ (HasEv("dpi_cancelled") \/ HasEv("dpi_entered"))
            /\ (HasEv("quality_cancelled") => quality = DefaultQuality)
            /\ (HasEv("dpi_cancelled") => dpi = DefaultDpi))
    /\ [][(op = "compress" /\ op' = "compress") =>
              (quality' = quality /\ dpi' = dpi)]_vars

\* C23 witness: both prompts were cancelled and the lossy pass has rasterized
\* the pages with quality 80 at 150 dpi.
C23_Witness ==
    /\ op = "compress"
    /\ HasEv("quality_cancelled") /\ HasEv("dpi_cancelled")
    /\ HasEv("rasterize")
    /\ quality = DefaultQuality /\ dpi = DefaultDpi

\* C28: the lossy pass of compress_pdf opens the original input again, not the
\* lossless result, and writes the output path only in its last step; when it
\* fails on a page the output path still holds the whole lossless result and
\* an error is reported.
C28_LossyPassReadsOriginalWritesOnce ==
    /\ []((op = "compress" /\ pc \in {"rasterize", "lossy_save"}) =>
             (doc = Opened(pdf_path) /\ doc.path # output_path))
    /\ [][(op = "compress" /\ pc \in {"lossy_open", "rasterize"}) => fs' = fs]_vars
    /\ []((op = "compress" /\ HasEv("rasterize_failed")) =>
             /\ fs[output_path] =
                    File("lossless", pdf_path, out_size, fs[pdf_path].pages)
             /\ fs[pdf_path].kind = "orig"
             /\ CountEv("showerror") = 1)

\* C28 witness: the lossy pass failed on a page and the output is the lossless
\* result.
C28_Witness ==
    /\ op = "compress" /\ pc = "done"
    /\ HasEv("lossy_open") /\ HasEv("rasterize_failed")
    /\ fs[output_path].kind = "lossless"

\* ------------------------------------------------------- claims on drops
\* C24 (as claimed): after a drop with a non-empty path list,
\* last_dropped_paths is the dropped list, in order.
C24_AllDroppedPathsRetained ==
    drop_paths # << >> => last_dropped_paths = drop_paths

\* The retained paths a PDF handler accepts by their extension
RetainedPdfs ==
    FilterSeq(last_dropped_paths,
              {p \in SeqRange(last_dropped_paths) : Lower(Ext(p)) = PdfExt})

\* last_dropped_paths changes only in a drop that holds an existing file, and
\* then to the existing files of the drop; a drop of no existing file leaves
\* it as it was.
DropFrame ==
    /\ [][last_dropped_paths' # last_dropped_paths =>
              /\ op = "idle" /\ op' = "idle"
              /\ \E i \in 1..Len(drop_paths') : IsFile(drop_paths'[i])
              /\ last_dropped_paths' =
                     FilterSeq(drop_paths', {q \in SeqRange(drop_paths') : IsFile(q)})]_vars
    /\ [][(drop_paths' # drop_paths
           /\ \A i \in 1..Len(drop_paths') : ~IsFile(drop_paths'[i]))
          => last_dropped_paths' = last_dropped_paths]_vars

\* C30 (as claimed): last_dropped_paths changes only in an effective drop, and
\* a handler started while a PDF is retained works on the first retained PDF
\* and shows no file dialog.
C30_RetainedDropAlwaysUsed ==
    /\ DropFrame
    /\ []((op = "compress" /\ RetainedPdfs # << >>) =>
             (pdf_path = RetainedPdfs[1] /\ ~HasEv("askopenfilename")))

\* C30 (amended): last_dropped_paths changes only in an effective drop, and a
\* handler started while a retained PDF still exists works on the first such
\* PDF and shows no file dialog.
C30_RetainedDropUsedWhileItExists ==
    /\ DropFrame
    /\ []((op = "compress" /\ GetDroppedFiles({PdfExt}, FALSE) # None) =>
             /\ pdf_path = GetDroppedFiles({PdfExt}, FALSE)[1][1]
             /\ ~HasEv("askopenfilename"))

\* C30 witness: a drop of a file and a non-file was followed by a drop of the
\* non-file alone, and compress_pdf then ran on the retained file to its end.
C30_Witness ==
    /\ drop_paths = <<PathGone>>
    /\ last_dropped_paths = <<PathX>>
    /\ op = "compress" /\ pc = "done"
    /\ pdf_path = PathX
    /\ ~HasEv("askopenfilename")

\* ------------------------------------------- claims on pdf_to_text, split_pdf
\* C25 (as claimed): pdf_to_text leaves no output file when no page yields
\* text; a file it writes holds one segment for every page of the PDF, in page
\* order.
C25_OneSegmentPerPage ==
    op = "text" =>
        /\ HasEv("showwarning_no_text") => output_path \notin DOMAIN fs
        /\ HasEv("write") =>
              /\ fs[output_path].pages = fs[pdf_path].pages
              /\ \A k \in 1..Len(extracted_text) : extracted_text[k].page = k

\* C26 (as claimed): a file written by split_pdf holds the source pages
\* start..min(end, N) in order and at least one page; after a cancelled
\* prompt, start < 1 or end < start a warning is shown and nothing is written.
C26_SplitWritesRequestedPages ==
    op = "split" =>
        /\ HasEv("write") =>
              /\ processed = PageSeq(start_page, Min(end_page[1], pages_found))
              /\ fs[output_path] = File("split", pdf_path, 1, Len(processed))
              /\ fs[output_path].pages >= 1
        /\ (HasEv("ask_end") /\ ~SplitValid(first_page_in, last_page_in)) =>
              /\ HasEv("showwarning_invalid")
              /\ PathSplitOut \notin DOMAIN fs

\* ------------------------------------------------ claims on the progress bar
\* C29: a handler that started the progress bar has stopped it when it
\* returns, on every path, and the progress bar never runs while the
\* application is idle.
C29_ProgressStoppedOnReturn ==
    /\ (op = "idle" \/ pc = "done") => ~progress
    /\ (op \in {"compress", "word", "image_to_pdf", "decrypt"} /\ pc # "done")
          => progress

\* C29 witness: image_to_pdf has returned from its cancelled save dialog with
\* the progress bar stopped.
C29_Witness ==
    /\ op = "image_to_pdf" /\ pc = "done"
    /\ HasEv("asksaveasfilename_cancelled")
    /\ ~progress

====
